---- MODULE Spec2Model ----
(***************************************************************************)
(* A model of the WhatsApp health assistant: the per-identity admission    *)
(* control (CustomRateLimiter, dynamicRateLimiter, InputValidator), the    *)
(* ordered provider fallback of AIService.processHealthQuery with the      *)
(* knowledge engine behind it, and the webhook pipeline of                 *)
(* WhatsAppController.                                                     *)
(*                                                                         *)
(* A JavaScript string is modelled as the sequence of its UTF-16 code      *)
(* units, so that length, substring, includes and toLowerCase are computed *)
(* as the code computes them.  Times are milliseconds, as Date.now().      *)
(***************************************************************************)
EXTENDS Integers, Sequences, FiniteSets, TLC

VARIABLES
    now,            \* the value Date.now() returns
    ticks,          \* how many times the clock has advanced
    cfg,            \* [windowMs, maxRequests] of the direct checkLimit/checkRateLimit calls
    store,          \* CustomRateLimiter.store: key -> timestamps
    rateLimitStore, \* InputValidator.rateLimitStore: phone number -> timestamps
    lastCheck,      \* the result of the last checkLimit / checkRateLimit call
    admitted,       \* history: per key, the times of the allowed calls still inside its window
    unswept,        \* history: the store of the same calls of checkLimit with no sweep in between
    denials,        \* history: per key, the resetTime of its last denial and whether a later
                    \* call lifted it
    httpRes,        \* what dynamicRateLimiter did with the last request
    seen,           \* history: the time of that request and the admissions before it
    env,            \* the settings of process.env
    knowledgeBase,  \* KnowledgeBaseService.knowledgeBase
    ipHits,         \* the requests the limiter of the app has counted for the caller's IP
    handled,        \* how many requests have been taken
    pipeline,       \* the request being handled and the position of its handler
    run,            \* the run of AIService.processHealthQuery for that request
    detection,      \* LanguageService: its API keys and its call of detectLanguage
    formatting,     \* KnowledgeBaseService: its calls of formatDiseaseInfo and searchHealthInfo
    search,         \* KnowledgeBaseService: the last call of searchHealthInfo and its result
    conversations   \* the table `conversations` and the runs of processMessage writing to it

limiterVars == <<now, ticks, cfg, store, rateLimitStore, lastCheck, admitted, denials, unswept, httpRes, seen>>
pipelineVars == <<env, knowledgeBase, ipHits, handled, pipeline, run>>
serviceVars == <<detection, formatting, search, conversations>>
vars == <<limiterVars, pipelineVars, serviceVars>>

----------------------------------------------------------------------------
(* Strings *)

\* String.prototype.toLowerCase on the code units the modelled texts use: the
\* ASCII capitals; Devanagari has no case.
ToLowerCase(s) == [i \in 1..Len(s) |-> IF s[i] \in 65..90 THEN s[i] + 32 ELSE s[i]]

\* String.prototype.includes
Includes(s, sub) ==
    \E i \in 0..(Len(s) - Len(sub)) : SubSeq(s, i + 1, i + Len(sub)) = sub

\* \w of a JavaScript regular expression: [A-Za-z0-9_]
IsWordChar(c) == c \in (48..57) \cup (65..90) \cup {95} \cup (97..122)

\* /\b(w1|w2|...)\b/i .test(s): some alternative occurs in s, in any case, with a
\* word boundary on both sides
TestWordsIgnoreCase(s, words) ==
    LET l == ToLowerCase(s) IN
    \E w \in words : \E i \in 0..(Len(l) - Len(w)) :
        /\ SubSeq(l, i + 1, i + Len(w)) = w
        /\ (i = 0 \/ ~IsWordChar(l[i]))
        /\ (i + Len(w) = Len(l) \/ ~IsWordChar(l[i + Len(w) + 1]))

\* /[\u0900-\u097F]/.test(s)
HasDevanagari(s) == \E i \in 1..Len(s) : s[i] \in 2304..2431

Min(S) == CHOOSE x \in S : \A y \in S : x <= y
Max(S) == CHOOSE x \in S : \A y \in S : x >= y

\* the white space and line terminators of String.prototype.trim and of \s
WhiteSpace ==
    {9, 10, 11, 12, 13, 32, 160, 5760, 8232, 8233, 8239, 8287, 12288, 65279} \cup (8192..8202)

\* the line terminators, which . of a regular expression does not match
LineTerminators == {10, 13, 8232, 8233}

\* String.prototype.trim
Trim(s) ==
    LET n == Len(s)
        Black(i) == s[i] \notin WhiteSpace
    IN  IF \A i \in 1..n : ~Black(i) THEN <<>>
        ELSE SubSeq(s,
                    CHOOSE i \in 1..n : Black(i) /\ \A j \in 1..(i - 1) : ~Black(j),
                    CHOOSE i \in 1..n : Black(i) /\ \A j \in (i + 1)..n : ~Black(j))

\* s.substring(0, end)
SubstringTo(s, end) == SubSeq(s, 1, IF end < Len(s) THEN end ELSE Len(s))

\* s.lastIndexOf(c) for one code unit c: an index from 0, or -1
LastIndexOf(s, c) ==
    LET idx == {i \in 1..Len(s) : s[i] = c}
    IN  IF idx = {} THEN -1 ELSE Max(idx) - 1

\* s.replace(/[...]/g, '') for a class of code units
RemoveUnits(s, class) == SelectSeq(s, LAMBDA c : c \notin class)

\* s.split(sep) for a separator that is one code unit of seps: the pieces, the
\* empty ones included
SplitOn(s, seps) ==
    LET n == Len(s)
        cuts == {i \in 1..n : s[i] \in seps}
        starts == {0} \cup cuts
        NextCut(q) == IF \E c \in cuts : c > q THEN Min({c \in cuts : c > q}) ELSE n + 1
        Start(k) == CHOOSE q \in starts : Cardinality({r \in starts : r < q}) = k - 1
    IN  [k \in 1..Cardinality(starts) |-> SubSeq(s, Start(k) + 1, NextCut(Start(k)) - 1)]

\* s.split(/\s+/): a run of white space separates once, so only the first and
\* the last piece can be empty
SplitWhiteSpace(s) ==
    LET pieces == SplitOn(s, WhiteSpace)
        n == Len(pieces)
        keep == {k \in 1..n : k = 1 \/ k = n \/ pieces[k] # <<>>}
        Kept(j) == CHOOSE k \in keep : Cardinality({r \in keep : r < k}) = j - 1
    IN  [j \in 1..Cardinality(keep) |-> pieces[Kept(j)]]

\* parts.join(sep)
RECURSIVE Join(_, _)
Join(parts, sep) ==
    IF parts = <<>> THEN <<>>
    ELSE IF Len(parts) = 1 THEN parts[1]
    ELSE parts[1] \o sep \o Join(Tail(parts), sep)

\* s.replace(/\*\*(.*?)\*\*/g, '$1') from position i on: the leftmost ** that is
\* closed by a later ** on the same line loses both marks, and the search goes
\* on behind the closing mark
RECURSIVE RemoveBoldFrom(_, _)
RemoveBoldFrom(s, i) ==
    LET n == Len(s)
        marks == {q \in 1..(n - 1) : s[q] = 42 /\ s[q + 1] = 42}
        breaks == {j \in 1..n : s[j] \in LineTerminators}
        Closes(q, r) == /\ r >= q + 2
                        /\ \A j \in breaks : j < q + 2 \/ j > r - 1
        opens == {q \in marks : q >= i /\ \E r \in marks : Closes(q, r)}
    IN  IF opens = {} THEN s
        ELSE LET q == Min(opens)
                 r == Min({x \in marks : Closes(q, x)})
             IN  RemoveBoldFrom(SubSeq(s, 1, q - 1) \o SubSeq(s, q + 2, r - 1) \o SubSeq(s, r + 2, n),
                                r - 2)

\* s.replace(/\n•/g, ','): a newline followed by a bullet becomes a comma
ReplaceNewlineBullet(s) ==
    LET n == Len(s)
        IsPair(i) == i + 1 <= n /\ s[i] = 10 /\ s[i + 1] = 8226
        kept == SelectSeq([i \in 1..n |-> i], LAMBDA i : ~(i > 1 /\ IsPair(i - 1)))
    IN  [j \in 1..Len(kept) |-> IF IsPair(kept[j]) THEN 44 ELSE s[kept[j]]]

\* s.replace(/\n/g, ' ')
ReplaceNewlines(s) == [i \in 1..Len(s) |-> IF s[i] = 10 THEN 32 ELSE s[i]]

\* the text "I have fever"
TextIHaveFever == <<73, 32, 104, 97, 118, 101, 32, 102, 101, 118, 101, 114>>
\* the text "Help me"
TextHelpMe == <<72, 101, 108, 112, 32, 109, 101>>
\* the text "Chest pain"
TextChestPain == <<67, 104, 101, 115, 116, 32, 112, 97, 105, 110>>
\* the text "Emergency hai"
TextEmergencyHai == <<69, 109, 101, 114, 103, 101, 110, 99, 121, 32, 104, 97, 105>>
\* the text "bukhar hai kya"
TextBukharHaiKya == <<98, 117, 107, 104, 97, 114, 32, 104, 97, 105, 32, 107, 121, 97>>
\* a Devanagari text (mujhe bukhar hai)
TextHindiBukhar == <<2350, 2369, 2333, 2375, 32, 2348, 2369, 2326, 2366, 2352, 32, 2361, 2376>>
\* the text "What is your name"
TextWhatIsYourName == <<87, 104, 97, 116, 32, 105, 115, 32, 121, 111, 117, 114, 32, 110, 97, 109, 101>>

----------------------------------------------------------------------------
(* CustomRateLimiter (rateLimiter middleware) *)

WindowMsDefault == 60000
OneHour == 3600000
EmergencyMaxRequests == 8
ConversationMaxRequests == 3
\* a window longer than the sweep's horizon, for the direct calls
LongWindowMs == 2 * OneHour
\* the ceilings the direct calls are made with
MaxRequestsChoices == {1, 2}

\* how many times the clock advances in a behaviour
MaxTicks == 2

Users == {"+911"}
DirectKeys == {"k1", "k2"}
Phones == {"+911"}
\* A key is the pair <<base, suffix>>, for the string base + suffix
LimiterKeys == (Users \X {":emergency", ":conversation"}) \cup (DirectKeys \X {""})

\* how far the clock advances between two events
TimeSteps == {30000, OneHour}

\* Map.get(key) || []
StoreGet(st, key) == IF key \in DOMAIN st THEN st[key] ELSE <<>>
\* Map.set(key, value)
StoreSet(st, key, value) ==
    [k \in (DOMAIN st) \cup {key} |-> IF k = key THEN value ELSE st[k]]
\* Map.delete(key)
StoreDelete(st, key) == [k \in (DOMAIN st) \ {key} |-> st[k]]

\* the filter keeping a timestamp exactly windowMs old (<= for <)
FilterValidInclusive(requests, t, windowMs) ==
    LET keep(time) == t - time <= windowMs
    IN  SelectSeq(requests, keep)

\* Array.prototype.filter(timestamp => t - timestamp < windowMs)
RECURSIVE FilterValid(_, _, _)
FilterValid(requests, t, windowMs) ==
    IF requests = <<>> THEN <<>>
    ELSE LET rest == FilterValid(Tail(requests), t, windowMs) IN
         IF t - Head(requests) < windowMs THEN <<Head(requests)>> \o rest ELSE rest

\* checkLimit with the ceiling test off by one (> for >=)
CheckLimitOffByOne(st, key, t, windowMs, maxRequests) ==
    LET userRequests == StoreGet(st, key)
        validRequests == FilterValid(userRequests, t, windowMs)
    IN  IF Len(validRequests) > maxRequests
        THEN [store |-> st,
              result |-> [allowed |-> FALSE,
                          resetTime |-> validRequests[1] + windowMs,
                          remaining |-> 0,
                          total |-> maxRequests]]
        ELSE [store |-> StoreSet(st, key, Append(validRequests, t)),
              result |-> [allowed |-> TRUE,
                          resetTime |-> t + windowMs,
                          remaining |-> maxRequests - (Len(validRequests) + 1),
                          total |-> maxRequests]]

\* checkLimit recording the time of a denied request too
CheckLimitRecordingDenied(st, key, t, windowMs, maxRequests) ==
    LET userRequests == StoreGet(st, key)
        validRequests == FilterValid(userRequests, t, windowMs)
    IN  IF Len(validRequests) >= maxRequests
        THEN [store |-> StoreSet(st, key, Append(validRequests, t)),
              result |-> [allowed |-> FALSE,
                          resetTime |-> validRequests[1] + windowMs,
                          remaining |-> 0,
                          total |-> maxRequests]]
        ELSE [store |-> StoreSet(st, key, Append(validRequests, t)),
              result |-> [allowed |-> TRUE,
                          resetTime |-> t + windowMs,
                          remaining |-> maxRequests - (Len(validRequests) + 1),
                          total |-> maxRequests]]

\* checkLimit(key, windowMs, maxRequests) at time t: the new store and the result
CheckLimit(st, key, t, windowMs, maxRequests) ==
    LET userRequests == StoreGet(st, key)
        validRequests == FilterValid(userRequests, t, windowMs)
    IN  IF Len(validRequests) >= maxRequests
        THEN [store |-> st,
              result |-> [allowed |-> FALSE,
                          resetTime |-> validRequests[1] + windowMs,
                          remaining |-> 0,
                          total |-> maxRequests]]
        ELSE [store |-> StoreSet(st, key, Append(validRequests, t)),
              result |-> [allowed |-> TRUE,
                          resetTime |-> t + windowMs,
                          remaining |-> maxRequests - (Len(validRequests) + 1),
                          total |-> maxRequests]]

\* a sweep with a horizon of half a minute
CleanupShortHorizon(st, t) ==
    LET kept == {k \in DOMAIN st : FilterValid(st[k], t, 30000) # <<>>}
    IN  [k \in kept |-> FilterValid(st[k], t, 30000)]

\* cleanup() at time t: the store after the loop over its entries
Cleanup(st, t) ==
    LET kept == {k \in DOMAIN st : FilterValid(st[k], t, OneHour) # <<>>}
    IN  [k \in kept |-> FilterValid(st[k], t, OneHour)]

\* InputValidator.checkRateLimit(phoneNumber, windowMs, maxRequests) at time t
CheckRateLimit(st, phoneNumber, t, windowMs, maxRequests) ==
    LET userRequests == StoreGet(st, phoneNumber)
        validRequests == FilterValid(userRequests, t, windowMs)
    IN  IF Len(validRequests) >= maxRequests
        THEN [store |-> st,
              result |-> [isLimited |-> TRUE,
                          resetTime |-> validRequests[1] + windowMs,
                          remaining |-> 0]]
        ELSE [store |-> StoreSet(st, phoneNumber, Append(validRequests, t)),
              result |-> [isLimited |-> FALSE,
                          remaining |-> maxRequests - (Len(validRequests) + 1)]]

\* InputValidator.cleanupRateLimit() at time t
CleanupRateLimit(st, t) ==
    LET kept == {k \in DOMAIN st : FilterValid(st[k], t, OneHour) # <<>>}
    IN  [k \in kept |-> FilterValid(st[k], t, OneHour)]

\* getStatus(key) at time t
GetStatus(st, key, t) ==
    LET recentRequests == FilterValid(StoreGet(st, key), t, WindowMsDefault)
    IN  [recentRequests |-> Len(recentRequests)]

\* src/unnamed/part_000:433-436 'emergency','urgent','help','ambulance','hospital','apatkal','madad','turant','jaldi','bachao'
LimiterEmergencyKeywords ==
    {<<101, 109, 101, 114, 103, 101, 110, 99, 121>>,
     <<117, 114, 103, 101, 110, 116>>,
     <<104, 101, 108, 112>>,
     <<97, 109, 98, 117, 108, 97, 110, 99, 101>>,
     <<104, 111, 115, 112, 105, 116, 97, 108>>,
     <<97, 112, 97, 116, 107, 97, 108>>,
     <<109, 97, 100, 97, 100>>,
     <<116, 117, 114, 97, 110, 116>>,
     <<106, 97, 108, 100, 105>>,
     <<98, 97, 99, 104, 97, 111>>}

\* src/unnamed/part_000:474 the alternatives of /\b(hai|hain|kya|kaise|mein|main)\b/i
RateLimitHinglishWords ==
    {<<104, 97, 105>>,
     <<104, 97, 105, 110>>,
     <<107, 121, 97>>,
     <<107, 97, 105, 115, 101>>,
     <<109, 101, 105, 110>>,
     <<109, 97, 105, 110>>}

\* src/unnamed/part_000:477 "????? ???? ??? ?? ????? ?????? ??? ???? ??? ???? ????? ??? ?..." (113 code units)
RateLimitMessageHi ==
    <<2325, 2371, 2346, 2351, 2366, 32, 2343, 2368, 2350, 2368, 32, 2327, 2340, 2367, 32, 2360, 2375, 32, 2360, 2306, 2342, 2375, 2358, 32,
      2349, 2375, 2332, 2375, 2306, 2404, 32, 2350, 2376, 2306, 32, 2310, 2346, 2325, 2368, 32, 2350, 2342, 2342, 32, 2325, 2352, 2344, 2366,
      32, 2330, 2366, 2361, 2340, 2366, 32, 2361, 2370, 2306, 32, 2354, 2375, 2325, 2367, 2344, 32, 2341, 2379, 2337, 2364, 2366, 32, 2360,
      2350, 2351, 32, 2342, 2375, 2306, 2404, 32, 55357, 56656, 10, 10, 2310, 2346, 2366, 2340, 2325, 2366, 2354, 32, 2325, 2375, 32, 2354,
      2367, 2319, 58, 32, 49, 49, 50, 32, 2337, 2366, 2351, 2354, 32, 2325, 2352, 2375, 2306>>
\* src/unnamed/part_000:479 "Please slowly message bheje. Main aapki help karna chahta hu..." (125 code units)
RateLimitMessageHinglish ==
    <<80, 108, 101, 97, 115, 101, 32, 115, 108, 111, 119, 108, 121, 32, 109, 101, 115, 115, 97, 103, 101, 32, 98, 104,
      101, 106, 101, 46, 32, 77, 97, 105, 110, 32, 97, 97, 112, 107, 105, 32, 104, 101, 108, 112, 32, 107, 97, 114,
      110, 97, 32, 99, 104, 97, 104, 116, 97, 32, 104, 117, 110, 32, 108, 101, 107, 105, 110, 32, 116, 104, 111, 100,
      97, 32, 116, 105, 109, 101, 32, 100, 105, 106, 105, 121, 101, 46, 32, 55357, 56656, 10, 10, 69, 109, 101, 114, 103,
      101, 110, 99, 121, 32, 107, 101, 32, 108, 105, 121, 101, 58, 32, 49, 49, 50, 32, 100, 105, 97, 108, 32, 107,
      97, 114, 105, 121, 101>>
\* src/unnamed/part_000:481 "Please slow down your messages. I want to help you but need ..." (116 code units)
RateLimitMessageEn ==
    <<80, 108, 101, 97, 115, 101, 32, 115, 108, 111, 119, 32, 100, 111, 119, 110, 32, 121, 111, 117, 114, 32, 109, 101,
      115, 115, 97, 103, 101, 115, 46, 32, 73, 32, 119, 97, 110, 116, 32, 116, 111, 32, 104, 101, 108, 112, 32, 121,
      111, 117, 32, 98, 117, 116, 32, 110, 101, 101, 100, 32, 97, 32, 109, 111, 109, 101, 110, 116, 32, 98, 101, 116,
      119, 101, 101, 110, 32, 109, 101, 115, 115, 97, 103, 101, 115, 46, 32, 55357, 56656, 10, 10, 70, 111, 114, 32, 101,
      109, 101, 114, 103, 101, 110, 99, 105, 101, 115, 58, 32, 68, 105, 97, 108, 32, 49, 49, 50>>
\* src/unnamed/part_000:447 "Even for emergencies, please wait before sending another mes..." (65 code units)
EmergencyLimitMessage ==
    <<69, 118, 101, 110, 32, 102, 111, 114, 32, 101, 109, 101, 114, 103, 101, 110, 99, 105, 101, 115, 44, 32, 112, 108,
      101, 97, 115, 101, 32, 119, 97, 105, 116, 32, 98, 101, 102, 111, 114, 101, 32, 115, 101, 110, 100, 105, 110, 103,
      32, 97, 110, 111, 116, 104, 101, 114, 32, 109, 101, 115, 115, 97, 103, 101, 46>>

\* getLocalizedRateLimitMessage(message)
GetLocalizedRateLimitMessage(message) ==
    LET isHindi == HasDevanagari(message)
        isHinglish == ~isHindi /\ TestWordsIgnoreCase(message, RateLimitHinglishWords)
    IN  IF isHindi THEN RateLimitMessageHi
        ELSE IF isHinglish THEN RateLimitMessageHinglish
        ELSE RateLimitMessageEn

\* The properties of the object that `this` is inside dynamicRateLimiter. The
\* middleware is an arrow function at the top level of a CommonJS module, so its
\* `this` is the module's first exports object, which is empty: the module later
\* assigns a new object to module.exports, and getLocalizedRateLimitMessage is a
\* plain function of the module, a property of neither.
ThisProperties == {}

\* Math.round(x / 1000) for an integer x
RoundSeconds(x) == (x + 500) \div 1000

\* the request's text as dynamicRateLimiter reads it: (req.body?.Body || '').toLowerCase()
RequestMessage(body) == ToLowerCase(body)

\* the emergency test of dynamicRateLimiter
LimiterIsEmergency(message) == \E keyword \in LimiterEmergencyKeywords : Includes(message, keyword)

\* one key for both policies
LimiterKeyShared(user, isEmergency) == <<user, ":conversation">>

\* the key of the policy: userKey + ':emergency' or userKey + ':conversation'
LimiterKey(user, isEmergency) ==
    IF isEmergency THEN <<user, ":emergency">> ELSE <<user, ":conversation">>

NoResponse == [handled |-> "none", user |-> "", body |-> <<>>, status |-> 0, error |-> "",
               message |-> <<>>, retryAfter |-> 0, next |-> FALSE, recentRequests |-> 0]

\* what the history knew when the last request came in: its time, and how many
\* emergency and standard requests of its sender had been admitted in the last minute
NoRequestSeen == [at |-> 0, emergencyAdmitted |-> 0, conversationAdmitted |-> 0]

\* dynamicRateLimiter(req, res, next) at time t, for the request {From: user, Body: body}:
\* the new store, the checkLimit result and what became of the request
DynamicRateLimiter(st, user, body, t) ==
    LET message == RequestMessage(body)
        isEmergency == LimiterIsEmergency(message)
        key == LimiterKey(user, isEmergency)
        chk == IF isEmergency
               THEN CheckLimit(st, key, t, WindowMsDefault, EmergencyMaxRequests)
               ELSE CheckLimit(st, key, t, WindowMsDefault, ConversationMaxRequests)
        base == [NoResponse EXCEPT !.user = user, !.body = body]
    IN  [store |-> chk.store,
         key |-> key,
         result |-> chk.result,
         res |->
            IF chk.result.allowed
            THEN [base EXCEPT !.handled = "next", !.next = TRUE,
                              !.recentRequests = GetStatus(chk.store, <<user, "">>, t).recentRequests]
            ELSE IF isEmergency
            THEN [base EXCEPT !.handled = "response", !.status = 429,
                              !.error = "Emergency rate limit exceeded",
                              !.message = EmergencyLimitMessage,
                              !.retryAfter = RoundSeconds(chk.result.resetTime - t)]
            ELSE IF "getLocalizedRateLimitMessage" \in ThisProperties
            THEN [base EXCEPT !.handled = "response", !.status = 429,
                              !.error = "Rate limit exceeded",
                              !.message = GetLocalizedRateLimitMessage(message),
                              !.retryAfter = RoundSeconds(chk.result.resetTime - t)]
            ELSE \* TypeError: this.getLocalizedRateLimitMessage is not a function
                 [base EXCEPT !.handled = "throw", !.error = "TypeError"]]

----------------------------------------------------------------------------
(* The admission controller as a state machine *)

\* the window and the ceiling the calls for a key are made with
KeyWindowMs(key) == IF key[2] = "" \/ key[2] = "#validator" THEN cfg.windowMs ELSE WindowMsDefault
KeyMaxRequests(key) ==
    IF key[2] = ":emergency" THEN EmergencyMaxRequests
    ELSE IF key[2] = ":conversation" THEN ConversationMaxRequests
    ELSE cfg.maxRequests

AdmittedKeys == LimiterKeys \cup (Phones \X {"#validator"})

\* no denial of the key is remembered
NoDenial == [resetTime |-> -1, lifted |-> FALSE]

\* the allowed calls of `key` that lie in the trailing window ending at time t
InWindow(times, t, windowMs) == SelectSeq(times, LAMBDA x : t - x < windowMs)

NoCheck == [op |-> "none", key |-> <<"", "">>, allowed |-> TRUE,
            remaining |-> 0, resetTime |-> 0]

\* the admission control before the first call
LimiterStart ==
    /\ now = 0
    /\ ticks = 0
    /\ cfg \in [windowMs : {WindowMsDefault, LongWindowMs}, maxRequests : MaxRequestsChoices]
    /\ store = <<>>
    /\ rateLimitStore = <<>>
    /\ lastCheck = NoCheck
    /\ admitted = [k \in AdmittedKeys |-> <<>>]
    /\ denials = [k \in AdmittedKeys |-> NoDenial]
    /\ unswept = <<>>
    /\ httpRes = NoResponse
    /\ seen = NoRequestSeen

\* the clock advances
Tick ==
    /\ ticks < MaxTicks
    /\ \E d \in TimeSteps :
        /\ now' = now + d
        /\ admitted' = [k \in AdmittedKeys |-> InWindow(admitted[k], now + d, KeyWindowMs(k))]
    /\ ticks' = ticks + 1
    /\ UNCHANGED <<cfg, store, rateLimitStore, lastCheck, denials, unswept, httpRes, seen, pipelineVars, serviceVars>>

Record(key, allowed) ==
    IF allowed THEN [admitted EXCEPT ![key] = Append(@, now)] ELSE admitted

\* a denied call of `key` is remembered with its resetTime; the allowed call that
\* follows it lifts the denial, and the allowed call after that forgets it
Denial(key, allowed, resetTime) ==
    [denials EXCEPT ![key] =
        IF ~allowed THEN [resetTime |-> resetTime, lifted |-> FALSE]
        ELSE IF @.resetTime # -1 /\ ~@.lifted THEN [@ EXCEPT !.lifted = TRUE]
        ELSE NoDenial]

Denied(key) == denials[key].resetTime # -1 /\ ~denials[key].lifted

\* customRateLimiter.checkLimit(key, cfg.windowMs, cfg.maxRequests)
CheckLimitOf(key) ==
    LET c == CheckLimit(store, key, now, cfg.windowMs, cfg.maxRequests) IN
    /\ store' = c.store
    /\ lastCheck' = [op |-> "checkLimit", key |-> key,
                     allowed |-> c.result.allowed, remaining |-> c.result.remaining,
                     resetTime |-> c.result.resetTime]
    /\ admitted' = Record(key, c.result.allowed)
    /\ UNCHANGED <<now, ticks, cfg, rateLimitStore, httpRes, seen, pipelineVars, serviceVars>>

\* customRateLimiter.checkLimit(key, cfg.windowMs, cfg.maxRequests), called directly
CheckLimitCall ==
    /\ \E key \in DirectKeys \X {""} : CheckLimitOf(key)
    /\ UNCHANGED <<denials, unswept>>

\* the same call, with its denial and its effect on the sweep-free store recorded
CheckLimitCallRecorded ==
    \E key \in DirectKeys \X {""} :
        /\ CheckLimitOf(key)
        /\ denials' = Denial(key, lastCheck'.allowed, lastCheck'.resetTime)
        /\ unswept' = CheckLimit(unswept, key, now, cfg.windowMs, cfg.maxRequests).store

\* the setInterval callback: customRateLimiter.cleanup()
CleanupRun ==
    /\ store' = Cleanup(store, now)
    /\ UNCHANGED <<now, ticks, cfg, rateLimitStore, lastCheck, admitted, denials, unswept, httpRes, seen, pipelineVars, serviceVars>>

\* InputValidator.checkRateLimit(phoneNumber, cfg.windowMs, cfg.maxRequests)
CheckRateLimitCall ==
    \E phoneNumber \in Phones :
        LET c == CheckRateLimit(rateLimitStore, phoneNumber, now, cfg.windowMs, cfg.maxRequests) IN
        /\ rateLimitStore' = c.store
        /\ lastCheck' = [op |-> "checkRateLimit", key |-> <<phoneNumber, "#validator">>,
                         allowed |-> ~c.result.isLimited, remaining |-> c.result.remaining,
                         resetTime |-> IF c.result.isLimited THEN c.result.resetTime ELSE 0]
        /\ admitted' = Record(<<phoneNumber, "#validator">>, ~c.result.isLimited)
        /\ UNCHANGED <<now, ticks, cfg, store, denials, unswept, httpRes, seen, pipelineVars, serviceVars>>

\* InputValidator.cleanupRateLimit()
CleanupRateLimitRun ==
    /\ rateLimitStore' = CleanupRateLimit(rateLimitStore, now)
    /\ UNCHANGED <<now, ticks, cfg, store, lastCheck, admitted, denials, unswept, httpRes, seen, pipelineVars, serviceVars>>

LimiterNext ==
    \/ Tick
    \/ CheckLimitCall
    \/ CleanupRun
    \/ CheckRateLimitCall
    \/ CleanupRateLimitRun

\* the calls of checkLimit and the sweeps of its store, with the history of the calls
SweepNext ==
    \/ Tick
    \/ CheckLimitCallRecorded
    \/ CleanupRun


----------------------------------------------------------------------------
(* dynamicRateLimiter mounted on a route *)

DefaultMaxRequests == 5

\* the request texts the middleware is driven with
DynBodies == {TextIHaveFever, TextHelpMe, TextChestPain, TextBukharHaiKya, TextHindiBukhar}

DynStart ==
    /\ now = 0
    /\ ticks = 0
    /\ cfg = [windowMs |-> WindowMsDefault, maxRequests |-> DefaultMaxRequests]
    /\ store = <<>>
    /\ rateLimitStore = <<>>
    /\ lastCheck = NoCheck
    /\ admitted = [k \in AdmittedKeys |-> <<>>]
    /\ denials = [k \in AdmittedKeys |-> NoDenial]
    /\ unswept = <<>>
    /\ httpRes = NoResponse
    /\ seen = NoRequestSeen

\* the policy a request belongs to, by its text
PolicyKey(user, body) ==
    IF LimiterIsEmergency(RequestMessage(body)) THEN <<user, ":emergency">> ELSE <<user, ":conversation">>

\* a request {From: user, Body: body} goes through dynamicRateLimiter
DynamicRateLimiterRequest ==
    \E user \in Users, body \in DynBodies :
        LET d == DynamicRateLimiter(store, user, body, now) IN
        /\ store' = d.store
        /\ httpRes' = d.res
        /\ lastCheck' = [op |-> "checkLimit", key |-> d.key,
                         allowed |-> d.result.allowed, remaining |-> d.result.remaining,
                         resetTime |-> d.result.resetTime]
        /\ admitted' = Record(PolicyKey(user, body), d.result.allowed)
        /\ seen' = [at |-> now,
                    emergencyAdmitted |-> Len(admitted[<<user, ":emergency">>]),
                    conversationAdmitted |-> Len(admitted[<<user, ":conversation">>])]
        /\ UNCHANGED <<now, ticks, cfg, rateLimitStore, denials, unswept, pipelineVars, serviceVars>>

DynNext ==
    \/ Tick
    \/ DynamicRateLimiterRequest
    \/ CleanupRun


----------------------------------------------------------------------------
(* KnowledgeBaseService (knowledge engine) *)

\* null and undefined: a value that is no string (a code unit is never negative)
Null == <<-1>>
\* the truthiness of a value that is a string or null
Truthy(x) == x # Null /\ x # <<>>

\* x[language] || x.en for an object x with a text per language
Localized(x, language) == IF language \in DOMAIN x THEN x[language] ELSE x.en

\* the knowledge base the constructor falls back to when the data file cannot be
\* loaded; emergency_contacts.india is then undefined, read as []
EmptyKnowledgeBase == [diseases |-> <<>>, emergency_contacts |-> <<>>]

\* the entry
\*   diabetes: {en: {name: 'Diabetes', definition: 'A condition in which blood sugar stays too high.',
\*     symptoms: ['Frequent urination', 'Excessive thirst'], management: ['Take medicines as prescribed.'],
\*     prevention: ['Walk daily.']}}
\* and the contact 'Ambulance: 108'
DiabetesEntry ==
    [key |-> <<100, 105, 97, 98, 101, 116, 101, 115>>,
     data |-> [en |-> [name |-> <<68, 105, 97, 98, 101, 116, 101, 115>>,
             definition |-> <<65, 32, 99, 111, 110, 100, 105, 116, 105, 111, 110, 32, 105, 110, 32, 119, 104, 105, 99, 104, 32, 98, 108, 111, 111, 100, 32, 115, 117, 103, 97, 114, 32, 115, 116, 97, 121, 115, 32, 116, 111, 111, 32, 104, 105, 103, 104, 46>>,
             symptoms |-> <<<<70, 114, 101, 113, 117, 101, 110, 116, 32, 117, 114, 105, 110, 97, 116, 105, 111, 110>>, <<69, 120, 99, 101, 115, 115, 105, 118, 101, 32, 116, 104, 105, 114, 115, 116>>>>,
             management |-> <<<<84, 97, 107, 101, 32, 109, 101, 100, 105, 99, 105, 110, 101, 115, 32, 97, 115, 32, 112, 114, 101, 115, 99, 114, 105, 98, 101, 100, 46>>>>,
             prevention |-> <<<<87, 97, 108, 107, 32, 100, 97, 105, 108, 121, 46>>>>]]]

\* a knowledge base with the entries diabetes and
\*   malaria: {en: {name: 'Malaria', definition: 'An infection spread by mosquitoes.',
\*     symptoms: ['High fever', 'Chills'], management: ['See a doctor for a blood test.'],
\*     prevention: ['Use mosquito nets.'], emergency_signs: ['Confusion']}}
MalariaEntry ==
    [key |-> <<109, 97, 108, 97, 114, 105, 97>>,
     data |-> [en |-> [name |-> <<77, 97, 108, 97, 114, 105, 97>>,
             definition |-> <<65, 110, 32, 105, 110, 102, 101, 99, 116, 105, 111, 110, 32, 115, 112, 114, 101, 97, 100, 32, 98, 121, 32, 109, 111, 115, 113, 117, 105, 116, 111, 101, 115, 46>>,
             symptoms |-> <<<<72, 105, 103, 104, 32, 102, 101, 118, 101, 114>>, <<67, 104, 105, 108, 108, 115>>>>,
             management |-> <<<<83, 101, 101, 32, 97, 32, 100, 111, 99, 116, 111, 114, 32, 102, 111, 114, 32, 97, 32, 98, 108, 111, 111, 100, 32, 116, 101, 115, 116, 46>>>>,
             prevention |-> <<<<85, 115, 101, 32, 109, 111, 115, 113, 117, 105, 116, 111, 32, 110, 101, 116, 115, 46>>>>,
             emergency_signs |-> <<<<67, 111, 110, 102, 117, 115, 105, 111, 110>>>>]]]
TwoDiseasesKnowledgeBase ==
    [diseases |-> <<DiabetesEntry, MalariaEntry>>,
     emergency_contacts |-> <<<<65, 109, 98, 117, 108, 97, 110, 99, 101, 58, 32, 49, 48, 56>>>>]

\* the contents the data file is taken to have
KnowledgeBases == {EmptyKnowledgeBase, TwoDiseasesKnowledgeBase}

\* commonSymptoms of getDirectSymptomResponse (knowledgeBaseService.js:76-92)
\*   fever.en: "For fever, rest and drink plenty of water. Take pa..." (195 code units)
\*   fever.hi: "????? ?? ??? ???? ???? ?? ???? ???? ????? ????? ??..." (187 code units)
\*   fever.hinglish: "Fever ke liye aaram karo aur bahut paani piyo. Jar..." (211 code units)
\*   headache.en: "For headache, rest in a quiet, dark room. Apply co..." (176 code units)
\*   headache.hi: "??????? ?? ??? ????, ?????? ???? ??? ???? ????? ??..." (186 code units)
\*   headache.hinglish: "Headache ke liye shaant, andhera kamre mein aaram ..." (206 code units)
\*   cough.en: "For cough, drink warm water with honey and lemon. ..." (196 code units)
\*   cough.hi: "????? ?? ??? ??? ?? ????? ?? ??? ???? ???? ????? ?..." (191 code units)
\*   cough.hinglish: "Cough ke liye honey aur lemon ke saath garm paani ..." (217 code units)
commonSymptoms ==
    [fever |->
        [en |-> <<70, 111, 114, 32, 102, 101, 118, 101, 114, 44, 32, 114, 101, 115, 116, 32, 97, 110, 100, 32, 100, 114,
                  105, 110, 107, 32, 112, 108, 101, 110, 116, 121, 32, 111, 102, 32, 119, 97, 116, 101, 114, 46, 32, 84,
                  97, 107, 101, 32, 112, 97, 114, 97, 99, 101, 116, 97, 109, 111, 108, 32, 53, 48, 48, 109, 103, 32,
                  101, 118, 101, 114, 121, 32, 54, 32, 104, 111, 117, 114, 115, 32, 105, 102, 32, 110, 101, 101, 100, 101,
                  100, 46, 32, 85, 115, 101, 32, 99, 111, 108, 100, 32, 99, 111, 109, 112, 114, 101, 115, 115, 32, 111,
                  110, 32, 102, 111, 114, 101, 104, 101, 97, 100, 46, 32, 83, 101, 101, 32, 100, 111, 99, 116, 111, 114,
                  32, 105, 102, 32, 116, 101, 109, 112, 101, 114, 97, 116, 117, 114, 101, 32, 101, 120, 99, 101, 101, 100,
                  115, 32, 49, 48, 51, 176, 70, 32, 111, 114, 32, 112, 101, 114, 115, 105, 115, 116, 115, 32, 102, 111,
                  114, 32, 109, 111, 114, 101, 32, 116, 104, 97, 110, 32, 51, 32, 100, 97, 121, 115, 46>>,
         hi |-> <<2348, 2369, 2326, 2366, 2352, 32, 2325, 2375, 32, 2354, 2367, 2319, 32, 2310, 2352, 2366, 2350, 32, 2325, 2352, 2375, 2306,
                  32, 2324, 2352, 32, 2348, 2361, 2369, 2340, 32, 2346, 2366, 2344, 2368, 32, 2346, 2367, 2319, 2306, 2404, 32, 2332, 2352,
                  2370, 2352, 2340, 32, 2346, 2337, 2364, 2344, 2375, 32, 2346, 2352, 32, 2361, 2352, 32, 54, 32, 2328, 2306, 2335, 2375,
                  32, 2350, 2375, 2306, 32, 2346, 2376, 2352, 2366, 2360, 2367, 2335, 2366, 2350, 2379, 2354, 32, 53, 48, 48, 109, 103,
                  32, 2354, 2375, 2306, 2404, 32, 2350, 2366, 2341, 2375, 32, 2346, 2352, 32, 2336, 2306, 2337, 2368, 32, 2346, 2335, 2381,
                  2335, 2368, 32, 2352, 2326, 2375, 2306, 2404, 32, 2351, 2342, 2367, 32, 2340, 2366, 2346, 2350, 2366, 2344, 32, 49, 48,
                  51, 176, 70, 32, 2360, 2375, 32, 2309, 2343, 2367, 2325, 32, 2361, 2379, 32, 2351, 2366, 32, 51, 32, 2342, 2367,
                  2344, 32, 2360, 2375, 32, 2309, 2343, 2367, 2325, 32, 2352, 2361, 2375, 32, 2340, 2379, 32, 2337, 2377, 2325, 2381, 2335,
                  2352, 32, 2360, 2375, 32, 2350, 2367, 2354, 2375, 2306, 2404>>,
         hinglish |-> <<70, 101, 118, 101, 114, 32, 107, 101, 32, 108, 105, 121, 101, 32, 97, 97, 114, 97, 109, 32, 107, 97,
                        114, 111, 32, 97, 117, 114, 32, 98, 97, 104, 117, 116, 32, 112, 97, 97, 110, 105, 32, 112, 105, 121,
                        111, 46, 32, 74, 97, 114, 117, 114, 97, 116, 32, 112, 97, 100, 110, 101, 32, 112, 97, 114, 32, 104,
                        97, 114, 32, 54, 32, 103, 104, 97, 110, 116, 101, 32, 109, 101, 105, 110, 32, 112, 97, 114, 97, 99,
                        101, 116, 97, 109, 111, 108, 32, 53, 48, 48, 109, 103, 32, 108, 111, 46, 32, 77, 97, 116, 104, 101,
                        32, 112, 97, 114, 32, 116, 104, 97, 110, 100, 105, 32, 112, 97, 116, 116, 105, 32, 114, 97, 107, 104,
                        111, 46, 32, 65, 103, 97, 114, 32, 116, 101, 109, 112, 101, 114, 97, 116, 117, 114, 101, 32, 49, 48,
                        51, 176, 70, 32, 115, 101, 32, 122, 121, 97, 100, 97, 32, 104, 111, 32, 121, 97, 32, 51, 32, 100,
                        105, 110, 32, 115, 101, 32, 122, 121, 97, 100, 97, 32, 114, 97, 104, 101, 32, 116, 111, 32, 100, 111,
                        99, 116, 111, 114, 32, 115, 101, 32, 109, 105, 108, 111, 46>>],
     headache |->
        [en |-> <<70, 111, 114, 32, 104, 101, 97, 100, 97, 99, 104, 101, 44, 32, 114, 101, 115, 116, 32, 105, 110, 32,
                  97, 32, 113, 117, 105, 101, 116, 44, 32, 100, 97, 114, 107, 32, 114, 111, 111, 109, 46, 32, 65, 112,
                  112, 108, 121, 32, 99, 111, 108, 100, 32, 111, 114, 32, 119, 97, 114, 109, 32, 99, 111, 109, 112, 114,
                  101, 115, 115, 32, 111, 110, 32, 102, 111, 114, 101, 104, 101, 97, 100, 46, 32, 84, 97, 107, 101, 32,
                  112, 97, 114, 97, 99, 101, 116, 97, 109, 111, 108, 32, 111, 114, 32, 105, 98, 117, 112, 114, 111, 102,
                  101, 110, 32, 97, 115, 32, 100, 105, 114, 101, 99, 116, 101, 100, 46, 32, 83, 116, 97, 121, 32, 104,
                  121, 100, 114, 97, 116, 101, 100, 46, 32, 83, 101, 101, 32, 100, 111, 99, 116, 111, 114, 32, 105, 102,
                  32, 115, 101, 118, 101, 114, 101, 32, 111, 114, 32, 112, 101, 114, 115, 105, 115, 116, 101, 110, 116, 46>>,
         hi |-> <<2360, 2367, 2352, 2342, 2352, 2381, 2342, 32, 2325, 2375, 32, 2354, 2367, 2319, 32, 2358, 2366, 2306, 2340, 44, 32, 2309,
                  2306, 2343, 2375, 2352, 2375, 32, 2325, 2350, 2352, 2375, 32, 2350, 2375, 2306, 32, 2310, 2352, 2366, 2350, 32, 2325, 2352,
                  2375, 2306, 2404, 32, 2350, 2366, 2341, 2375, 32, 2346, 2352, 32, 2336, 2306, 2337, 2368, 32, 2351, 2366, 32, 2327, 2352,
                  2381, 2350, 32, 2346, 2335, 2381, 2335, 2368, 32, 2354, 2327, 2366, 2319, 2306, 2404, 32, 2344, 2367, 2352, 2381, 2342, 2375,
                  2358, 2366, 2344, 2369, 2360, 2366, 2352, 32, 2346, 2376, 2352, 2366, 2360, 2367, 2335, 2366, 2350, 2379, 2354, 32, 2351, 2366,
                  32, 2311, 2348, 2369, 2346, 2381, 2352, 2379, 2347, 2375, 2344, 32, 2354, 2375, 2306, 2404, 32, 2361, 2366, 2311, 2337, 2381,
                  2352, 2375, 2335, 2375, 2337, 32, 2352, 2361, 2375, 2306, 2404, 32, 2351, 2342, 2367, 32, 2327, 2306, 2349, 2368, 2352, 32,
                  2351, 2366, 32, 2354, 2327, 2366, 2340, 2366, 2352, 32, 2361, 2379, 32, 2340, 2379, 32, 2337, 2377, 2325, 2381, 2335, 2352,
                  32, 2360, 2375, 32, 2350, 2367, 2354, 2375, 2306, 2404>>,
         hinglish |-> <<72, 101, 97, 100, 97, 99, 104, 101, 32, 107, 101, 32, 108, 105, 121, 101, 32, 115, 104, 97, 97, 110,
                        116, 44, 32, 97, 110, 100, 104, 101, 114, 97, 32, 107, 97, 109, 114, 101, 32, 109, 101, 105, 110, 32,
                        97, 97, 114, 97, 109, 32, 107, 97, 114, 111, 46, 32, 77, 97, 116, 104, 101, 32, 112, 97, 114, 32,
                        116, 104, 97, 110, 100, 105, 32, 121, 97, 32, 103, 97, 114, 109, 32, 112, 97, 116, 116, 105, 32, 108,
                        97, 103, 97, 111, 46, 32, 68, 105, 114, 101, 99, 116, 105, 111, 110, 32, 107, 101, 32, 97, 99, 99,
                        111, 114, 100, 105, 110, 103, 32, 112, 97, 114, 97, 99, 101, 116, 97, 109, 111, 108, 32, 121, 97, 32,
                        105, 98, 117, 112, 114, 111, 102, 101, 110, 32, 108, 111, 46, 32, 72, 121, 100, 114, 97, 116, 101, 100,
                        32, 114, 97, 104, 111, 46, 32, 65, 103, 97, 114, 32, 115, 101, 114, 105, 111, 117, 115, 32, 121, 97,
                        32, 108, 97, 103, 97, 116, 97, 114, 32, 104, 111, 32, 116, 111, 32, 100, 111, 99, 116, 111, 114, 32,
                        115, 101, 32, 109, 105, 108, 111, 46>>],
     cough |->
        [en |-> <<70, 111, 114, 32, 99, 111, 117, 103, 104, 44, 32, 100, 114, 105, 110, 107, 32, 119, 97, 114, 109, 32,
                  119, 97, 116, 101, 114, 32, 119, 105, 116, 104, 32, 104, 111, 110, 101, 121, 32, 97, 110, 100, 32, 108,
                  101, 109, 111, 110, 46, 32, 85, 115, 101, 32, 115, 116, 101, 97, 109, 32, 105, 110, 104, 97, 108, 97,
                  116, 105, 111, 110, 46, 32, 65, 118, 111, 105, 100, 32, 99, 111, 108, 100, 32, 100, 114, 105, 110, 107,
                  115, 32, 97, 110, 100, 32, 105, 99, 101, 32, 99, 114, 101, 97, 109, 46, 32, 84, 97, 107, 101, 32,
                  99, 111, 117, 103, 104, 32, 115, 121, 114, 117, 112, 32, 105, 102, 32, 110, 101, 101, 100, 101, 100, 46,
                  32, 83, 101, 101, 32, 100, 111, 99, 116, 111, 114, 32, 105, 102, 32, 98, 108, 111, 111, 100, 32, 105,
                  110, 32, 99, 111, 117, 103, 104, 32, 111, 114, 32, 112, 101, 114, 115, 105, 115, 116, 115, 32, 102, 111,
                  114, 32, 109, 111, 114, 101, 32, 116, 104, 97, 110, 32, 50, 32, 119, 101, 101, 107, 115, 46>>,
         hi |-> <<2326, 2366, 2306, 2360, 2368, 32, 2325, 2375, 32, 2354, 2367, 2319, 32, 2358, 2361, 2342, 32, 2324, 2352, 32, 2344, 2368,
                  2306, 2348, 2370, 32, 2325, 2375, 32, 2360, 2366, 2341, 32, 2327, 2352, 2381, 2350, 32, 2346, 2366, 2344, 2368, 32, 2346,
                  2367, 2319, 2306, 2404, 32, 2349, 2366, 2346, 32, 2325, 2366, 32, 2360, 2375, 2357, 2344, 32, 2325, 2352, 2375, 2306, 2404,
                  32, 2336, 2306, 2337, 2375, 32, 2346, 2375, 2351, 32, 2324, 2352, 32, 2310, 2311, 2360, 2325, 2381, 2352, 2368, 2350, 32,
                  2360, 2375, 32, 2348, 2330, 2375, 2306, 2404, 32, 2332, 2352, 2370, 2352, 2340, 32, 2346, 2337, 2364, 2344, 2375, 32, 2346,
                  2352, 32, 2326, 2366, 2306, 2360, 2368, 32, 2325, 2368, 32, 2360, 2367, 2352, 2346, 32, 2354, 2375, 2306, 2404, 32, 2351,
                  2342, 2367, 32, 2326, 2366, 2306, 2360, 2368, 32, 2350, 2375, 2306, 32, 2326, 2370, 2344, 32, 2351, 2366, 32, 50, 32,
                  2360, 2346, 2381, 2340, 2366, 2361, 32, 2360, 2375, 32, 2309, 2343, 2367, 2325, 32, 2361, 2379, 32, 2340, 2379, 32, 2337,
                  2377, 2325, 2381, 2335, 2352, 32, 2360, 2375, 32, 2350, 2367, 2354, 2375, 2306, 2404>>,
         hinglish |-> <<67, 111, 117, 103, 104, 32, 107, 101, 32, 108, 105, 121, 101, 32, 104, 111, 110, 101, 121, 32, 97, 117,
                        114, 32, 108, 101, 109, 111, 110, 32, 107, 101, 32, 115, 97, 97, 116, 104, 32, 103, 97, 114, 109, 32,
                        112, 97, 97, 110, 105, 32, 112, 105, 121, 111, 46, 32, 83, 116, 101, 97, 109, 32, 105, 110, 104, 97,
                        108, 97, 116, 105, 111, 110, 32, 107, 97, 114, 111, 46, 32, 84, 104, 97, 110, 100, 101, 32, 100, 114,
                        105, 110, 107, 115, 32, 97, 117, 114, 32, 105, 99, 101, 32, 99, 114, 101, 97, 109, 32, 115, 101, 32,
                        98, 97, 99, 104, 111, 46, 32, 74, 97, 114, 117, 114, 97, 116, 32, 112, 97, 100, 110, 101, 32, 112,
                        97, 114, 32, 99, 111, 117, 103, 104, 32, 115, 121, 114, 117, 112, 32, 108, 111, 46, 32, 65, 103, 97,
                        114, 32, 99, 111, 117, 103, 104, 32, 109, 101, 105, 110, 32, 98, 108, 111, 111, 100, 32, 104, 111, 32,
                        121, 97, 32, 50, 32, 104, 97, 102, 116, 97, 32, 115, 101, 32, 122, 121, 97, 100, 97, 32, 104, 111,
                        32, 116, 111, 32, 100, 111, 99, 116, 111, 114, 32, 115, 101, 32, 109, 105, 108, 111, 46>>]]

\* the property names of commonSymptoms, in the order of Object.entries
SymptomNames == <<"fever", "headache", "cough">>
\* the names as strings: 'fever', 'headache', 'cough'
SymptomWord ==
    [fever |-> <<102, 101, 118, 101, 114>>,
     headache |-> <<104, 101, 97, 100, 97, 99, 104, 101>>,
     cough |-> <<99, 111, 117, 103, 104>>]

\* the affixes of the symptom keywords: symptom + 's', 'i have ' + symptom, symptom + ' problem'
SuffixS == <<115>>
PrefixIHave == <<105, 32, 104, 97, 118, 101, 32>>
SuffixProblem == <<32, 112, 114, 111, 98, 108, 101, 109>>

\* hindiSymptoms (knowledgeBaseService.js:104-113), in the order of Object.entries:
\* 'bukhar': 'fever', 'garmi': 'fever', 'temperature': 'fever', 'sir dard': 'headache', 'sar dard': 'headache', 'headache': 'headache', 'khansi': 'cough', 'khasi': 'cough'
hindiSymptoms ==
    <<[word |-> <<98, 117, 107, 104, 97, 114>>, symptom |-> "fever"],
      [word |-> <<103, 97, 114, 109, 105>>, symptom |-> "fever"],
      [word |-> <<116, 101, 109, 112, 101, 114, 97, 116, 117, 114, 101>>, symptom |-> "fever"],
      [word |-> <<115, 105, 114, 32, 100, 97, 114, 100>>, symptom |-> "headache"],
      [word |-> <<115, 97, 114, 32, 100, 97, 114, 100>>, symptom |-> "headache"],
      [word |-> <<104, 101, 97, 100, 97, 99, 104, 101>>, symptom |-> "headache"],
      [word |-> <<107, 104, 97, 110, 115, 105>>, symptom |-> "cough"],
      [word |-> <<107, 104, 97, 115, 105>>, symptom |-> "cough"]>>

\* healthKeywords of searchGeneralHealth (knowledgeBaseService.js:177-183), in order
\*   exercise: exercise, workout, physical activity, vyayam, kasrat
\*   diet: diet, food, nutrition, eating, khana, bhojan, aahar
\*   sleep: sleep, rest, neend, aaram
\*   water: water, hydration, paani, jal
\*   stress: stress, tension, worry, chinta, pareshani
healthKeywords ==
    <<[topic |-> "exercise",
       keywords |-> {<<101, 120, 101, 114, 99, 105, 115, 101>>, <<119, 111, 114, 107, 111, 117, 116>>, <<112, 104, 121, 115, 105, 99, 97, 108, 32, 97, 99, 116, 105, 118, 105, 116, 121>>, <<118, 121, 97, 121, 97, 109>>, <<107, 97, 115, 114, 97, 116>>}],
      [topic |-> "diet",
       keywords |-> {<<100, 105, 101, 116>>, <<102, 111, 111, 100>>, <<110, 117, 116, 114, 105, 116, 105, 111, 110>>, <<101, 97, 116, 105, 110, 103>>, <<107, 104, 97, 110, 97>>, <<98, 104, 111, 106, 97, 110>>, <<97, 97, 104, 97, 114>>}],
      [topic |-> "sleep",
       keywords |-> {<<115, 108, 101, 101, 112>>, <<114, 101, 115, 116>>, <<110, 101, 101, 110, 100>>, <<97, 97, 114, 97, 109>>}],
      [topic |-> "water",
       keywords |-> {<<119, 97, 116, 101, 114>>, <<104, 121, 100, 114, 97, 116, 105, 111, 110>>, <<112, 97, 97, 110, 105>>, <<106, 97, 108>>}],
      [topic |-> "stress",
       keywords |-> {<<115, 116, 114, 101, 115, 115>>, <<116, 101, 110, 115, 105, 111, 110>>, <<119, 111, 114, 114, 121>>, <<99, 104, 105, 110, 116, 97>>, <<112, 97, 114, 101, 115, 104, 97, 110, 105>>}]>>

\* emergencyKeywords of searchEmergencyInfo (knowledgeBaseService.js:196-199):
\* emergency, urgent, help, ambulance, hospital, apatkal, madad, aspatal
KbEmergencyKeywords ==
    {<<101, 109, 101, 114, 103, 101, 110, 99, 121>>, <<117, 114, 103, 101, 110, 116>>, <<104, 101, 108, 112>>, <<97, 109, 98, 117, 108, 97, 110, 99, 101>>, <<104, 111, 115, 112, 105, 116, 97, 108>>, <<97, 112, 97, 116, 107, 97, 108>>, <<109, 97, 100, 97, 100>>, <<97, 115, 112, 97, 116, 97, 108>>}

\* the keywords of all the types of symptomKeywords (knowledgeBaseService.js:218-224):
\* pain, hurt, ache, dard, takleef, fever, temperature, bukhar, garmi, headache,
\* head pain, sir dard, sar dard, cough, khansi, khasi, breath, breathing, saans, sansh
symptomKeywords ==
    {<<112, 97, 105, 110>>, <<104, 117, 114, 116>>, <<97, 99, 104, 101>>, <<100, 97, 114, 100>>, <<116, 97, 107, 108, 101, 101, 102>>, <<102, 101, 118, 101, 114>>, <<116, 101, 109, 112, 101, 114, 97, 116, 117, 114, 101>>, <<98, 117, 107, 104, 97, 114>>, <<103, 97, 114, 109, 105>>, <<104, 101, 97, 100, 97, 99, 104, 101>>, <<104, 101, 97, 100, 32, 112, 97, 105, 110>>, <<115, 105, 114, 32, 100, 97, 114, 100>>, <<115, 97, 114, 32, 100, 97, 114, 100>>, <<99, 111, 117, 103, 104>>, <<107, 104, 97, 110, 115, 105>>, <<107, 104, 97, 115, 105>>, <<98, 114, 101, 97, 116, 104>>, <<98, 114, 101, 97, 116, 104, 105, 110, 103>>, <<115, 97, 97, 110, 115>>, <<115, 97, 110, 115, 104>>}

\* advice of getGeneralHealthAdvice (knowledgeBaseService.js:318-329)
\*   exercise.en: "???? **Exercise Guidelines:**//? Aim for 150 minut..." (336 code units)
\*   exercise.hi: "???? **??????? ???????????:**//? ????????? 150 ???..." (334 code units)
\*   exercise.hinglish: "???? **Exercise Guidelines:**//? Weekly 150 minute..." (373 code units)
\*   diet.en: "? **Healthy Diet Guidelines:**//? Eat 5 servings o..." (338 code units)
\*   diet.hi: "? **?????? ???? ???????????:**//? ???????? ?? ?? ?..." (349 code units)
\*   diet.hinglish: "? **Healthy Diet Guidelines:**//? Daily fruits aur..." (378 code units)
advice ==
    [exercise |->
        [en |-> <<55356, 57283, 8205, 9794, 65039, 32, 42, 42, 69, 120, 101, 114, 99, 105, 115, 101, 32, 71, 117, 105, 100, 101,
                  108, 105, 110, 101, 115, 58, 42, 42, 10, 10, 8226, 32, 65, 105, 109, 32, 102, 111, 114, 32, 49, 53,
                  48, 32, 109, 105, 110, 117, 116, 101, 115, 32, 111, 102, 32, 109, 111, 100, 101, 114, 97, 116, 101, 32,
                  101, 120, 101, 114, 99, 105, 115, 101, 32, 119, 101, 101, 107, 108, 121, 10, 8226, 32, 73, 110, 99, 108,
                  117, 100, 101, 32, 98, 111, 116, 104, 32, 99, 97, 114, 100, 105, 111, 32, 97, 110, 100, 32, 115, 116,
                  114, 101, 110, 103, 116, 104, 32, 116, 114, 97, 105, 110, 105, 110, 103, 10, 8226, 32, 83, 116, 97, 114,
                  116, 32, 115, 108, 111, 119, 108, 121, 32, 97, 110, 100, 32, 103, 114, 97, 100, 117, 97, 108, 108, 121,
                  32, 105, 110, 99, 114, 101, 97, 115, 101, 32, 105, 110, 116, 101, 110, 115, 105, 116, 121, 10, 8226, 32,
                  87, 97, 108, 107, 105, 110, 103, 44, 32, 99, 121, 99, 108, 105, 110, 103, 44, 32, 115, 119, 105, 109,
                  109, 105, 110, 103, 32, 97, 114, 101, 32, 101, 120, 99, 101, 108, 108, 101, 110, 116, 32, 111, 112, 116,
                  105, 111, 110, 115, 10, 8226, 32, 69, 120, 101, 114, 99, 105, 115, 101, 32, 119, 105, 116, 104, 32, 102,
                  114, 105, 101, 110, 100, 115, 32, 102, 111, 114, 32, 109, 111, 116, 105, 118, 97, 116, 105, 111, 110, 10,
                  10, 55357, 56481, 32, 42, 42, 84, 105, 112, 58, 42, 42, 32, 69, 118, 101, 110, 32, 49, 48, 45, 49,
                  53, 32, 109, 105, 110, 117, 116, 101, 115, 32, 111, 102, 32, 100, 97, 105, 108, 121, 32, 97, 99, 116,
                  105, 118, 105, 116, 121, 32, 99, 97, 110, 32, 109, 97, 107, 101, 32, 97, 32, 100, 105, 102, 102, 101,
                  114, 101, 110, 99, 101, 33>>,
         hi |-> <<55356, 57283, 8205, 9794, 65039, 32, 42, 42, 2357, 2381, 2351, 2366, 2351, 2366, 2350, 32, 2342, 2367, 2358, 2366, 2344, 2367,
                  2352, 2381, 2342, 2375, 2358, 58, 42, 42, 10, 10, 8226, 32, 2360, 2366, 2346, 2381, 2340, 2366, 2361, 2367, 2325, 32,
                  49, 53, 48, 32, 2350, 2367, 2344, 2335, 32, 2350, 2343, 2381, 2351, 2350, 32, 2357, 2381, 2351, 2366, 2351, 2366, 2350,
                  32, 2325, 2366, 32, 2354, 2325, 2381, 2359, 2381, 2351, 32, 2352, 2326, 2375, 2306, 10, 8226, 32, 2325, 2366, 2352, 2381,
                  2337, 2367, 2351, 2379, 32, 2324, 2352, 32, 2358, 2325, 2381, 2340, 2367, 32, 2346, 2381, 2352, 2358, 2367, 2325, 2381, 2359,
                  2339, 32, 2342, 2379, 2344, 2379, 2306, 32, 2358, 2366, 2350, 2367, 2354, 32, 2325, 2352, 2375, 2306, 10, 8226, 32, 2343,
                  2368, 2352, 2375, 45, 2343, 2368, 2352, 2375, 32, 2358, 2369, 2352, 2370, 32, 2325, 2352, 2375, 2306, 32, 2324, 2352, 32,
                  2343, 2368, 2352, 2375, 45, 2343, 2368, 2352, 2375, 32, 2340, 2368, 2357, 2381, 2352, 2340, 2366, 32, 2348, 2338, 2364, 2366,
                  2319, 2306, 10, 8226, 32, 2330, 2354, 2344, 2366, 44, 32, 2360, 2366, 2311, 2325, 2367, 2354, 32, 2330, 2354, 2366, 2344,
                  2366, 44, 32, 2340, 2376, 2352, 2344, 2366, 32, 2313, 2340, 2381, 2325, 2371, 2359, 2381, 2335, 32, 2357, 2367, 2325, 2354,
                  2381, 2346, 32, 2361, 2376, 2306, 10, 8226, 32, 2346, 2381, 2352, 2375, 2352, 2339, 2366, 32, 2325, 2375, 32, 2354, 2367,
                  2319, 32, 2342, 2379, 2360, 2381, 2340, 2379, 2306, 32, 2325, 2375, 32, 2360, 2366, 2341, 32, 2357, 2381, 2351, 2366, 2351,
                  2366, 2350, 32, 2325, 2352, 2375, 2306, 10, 10, 55357, 56481, 32, 42, 42, 2360, 2369, 2333, 2366, 2357, 58, 42, 42,
                  32, 2342, 2376, 2344, 2367, 2325, 32, 49, 48, 45, 49, 53, 32, 2350, 2367, 2344, 2335, 32, 2325, 2368, 32, 2327,
                  2340, 2367, 2357, 2367, 2343, 2367, 32, 2349, 2368, 32, 2347, 2352, 2381, 2325, 32, 2354, 2366, 32, 2360, 2325, 2340, 2368,
                  32, 2361, 2376, 33>>,
         hinglish |-> <<55356, 57283, 8205, 9794, 65039, 32, 42, 42, 69, 120, 101, 114, 99, 105, 115, 101, 32, 71, 117, 105, 100, 101,
                        108, 105, 110, 101, 115, 58, 42, 42, 10, 10, 8226, 32, 87, 101, 101, 107, 108, 121, 32, 49, 53, 48,
                        32, 109, 105, 110, 117, 116, 101, 115, 32, 109, 111, 100, 101, 114, 97, 116, 101, 32, 101, 120, 101, 114,
                        99, 105, 115, 101, 32, 107, 97, 32, 116, 97, 114, 103, 101, 116, 32, 114, 97, 107, 104, 105, 121, 101,
                        10, 8226, 32, 67, 97, 114, 100, 105, 111, 32, 97, 117, 114, 32, 115, 116, 114, 101, 110, 103, 116, 104,
                        32, 116, 114, 97, 105, 110, 105, 110, 103, 32, 100, 111, 110, 111, 32, 105, 110, 99, 108, 117, 100, 101,
                        32, 107, 97, 114, 105, 121, 101, 10, 8226, 32, 83, 108, 111, 119, 108, 121, 32, 115, 116, 97, 114, 116,
                        32, 107, 97, 114, 105, 121, 101, 32, 97, 117, 114, 32, 103, 114, 97, 100, 117, 97, 108, 108, 121, 32,
                        105, 110, 116, 101, 110, 115, 105, 116, 121, 32, 98, 97, 100, 104, 97, 121, 101, 10, 8226, 32, 87, 97,
                        108, 107, 105, 110, 103, 44, 32, 99, 121, 99, 108, 105, 110, 103, 44, 32, 115, 119, 105, 109, 109, 105,
                        110, 103, 32, 101, 120, 99, 101, 108, 108, 101, 110, 116, 32, 111, 112, 116, 105, 111, 110, 115, 32, 104,
                        97, 105, 110, 10, 8226, 32, 77, 111, 116, 105, 118, 97, 116, 105, 111, 110, 32, 107, 101, 32, 108, 105,
                        121, 101, 32, 102, 114, 105, 101, 110, 100, 115, 32, 107, 101, 32, 115, 97, 97, 116, 104, 32, 101, 120,
                        101, 114, 99, 105, 115, 101, 32, 107, 97, 114, 105, 121, 101, 10, 10, 55357, 56481, 32, 42, 42, 84, 105,
                        112, 58, 42, 42, 32, 68, 97, 105, 108, 121, 32, 49, 48, 45, 49, 53, 32, 109, 105, 110, 117, 116,
                        101, 115, 32, 107, 105, 32, 97, 99, 116, 105, 118, 105, 116, 121, 32, 98, 104, 105, 32, 100, 105, 102,
                        102, 101, 114, 101, 110, 99, 101, 32, 108, 97, 32, 115, 97, 107, 116, 105, 32, 104, 97, 105, 33>>],
     diet |->
        [en |-> <<55358, 56663, 32, 42, 42, 72, 101, 97, 108, 116, 104, 121, 32, 68, 105, 101, 116, 32, 71, 117, 105, 100,
                  101, 108, 105, 110, 101, 115, 58, 42, 42, 10, 10, 8226, 32, 69, 97, 116, 32, 53, 32, 115, 101, 114,
                  118, 105, 110, 103, 115, 32, 111, 102, 32, 102, 114, 117, 105, 116, 115, 32, 97, 110, 100, 32, 118, 101,
                  103, 101, 116, 97, 98, 108, 101, 115, 32, 100, 97, 105, 108, 121, 10, 8226, 32, 67, 104, 111, 111, 115,
                  101, 32, 119, 104, 111, 108, 101, 32, 103, 114, 97, 105, 110, 115, 32, 111, 118, 101, 114, 32, 114, 101,
                  102, 105, 110, 101, 100, 32, 103, 114, 97, 105, 110, 115, 10, 8226, 32, 73, 110, 99, 108, 117, 100, 101,
                  32, 108, 101, 97, 110, 32, 112, 114, 111, 116, 101, 105, 110, 115, 32, 40, 102, 105, 115, 104, 44, 32,
                  99, 104, 105, 99, 107, 101, 110, 44, 32, 108, 101, 103, 117, 109, 101, 115, 41, 10, 8226, 32, 76, 105,
                  109, 105, 116, 32, 112, 114, 111, 99, 101, 115, 115, 101, 100, 32, 97, 110, 100, 32, 115, 117, 103, 97,
                  114, 121, 32, 102, 111, 111, 100, 115, 10, 8226, 32, 83, 116, 97, 121, 32, 104, 121, 100, 114, 97, 116,
                  101, 100, 32, 119, 105, 116, 104, 32, 56, 45, 49, 48, 32, 103, 108, 97, 115, 115, 101, 115, 32, 111,
                  102, 32, 119, 97, 116, 101, 114, 10, 8226, 32, 80, 114, 97, 99, 116, 105, 99, 101, 32, 112, 111, 114,
                  116, 105, 111, 110, 32, 99, 111, 110, 116, 114, 111, 108, 10, 10, 55357, 56481, 32, 42, 42, 84, 105, 112,
                  58, 42, 42, 32, 80, 108, 97, 110, 32, 121, 111, 117, 114, 32, 109, 101, 97, 108, 115, 32, 105, 110,
                  32, 97, 100, 118, 97, 110, 99, 101, 32, 102, 111, 114, 32, 98, 101, 116, 116, 101, 114, 32, 110, 117,
                  116, 114, 105, 116, 105, 111, 110, 33>>,
         hi |-> <<55358, 56663, 32, 42, 42, 2360, 2381, 2357, 2360, 2381, 2341, 32, 2310, 2361, 2366, 2352, 32, 2342, 2367, 2358, 2366, 2344,
                  2367, 2352, 2381, 2342, 2375, 2358, 58, 42, 42, 10, 10, 8226, 32, 2346, 2381, 2352, 2340, 2367, 2342, 2367, 2344, 32,
                  2347, 2354, 32, 2324, 2352, 32, 2360, 2348, 2381, 2332, 2367, 2351, 2379, 2306, 32, 2325, 2375, 32, 53, 32, 2361, 2367,
                  2360, 2381, 2360, 2375, 32, 2326, 2366, 2319, 2306, 10, 8226, 32, 2346, 2352, 2367, 2359, 2381, 2325, 2371, 2340, 32, 2309,
                  2344, 2366, 2332, 32, 2325, 2375, 32, 2348, 2332, 2366, 2351, 32, 2360, 2366, 2348, 2369, 2340, 32, 2309, 2344, 2366, 2332,
                  32, 2330, 2369, 2344, 2375, 2306, 10, 8226, 32, 2342, 2369, 2348, 2354, 2375, 32, 2346, 2381, 2352, 2379, 2335, 2368, 2344,
                  32, 2358, 2366, 2350, 2367, 2354, 32, 2325, 2352, 2375, 2306, 32, 40, 2350, 2331, 2354, 2368, 44, 32, 2330, 2367, 2325,
                  2344, 44, 32, 2342, 2366, 2354, 2375, 2306, 41, 10, 8226, 32, 2346, 2381, 2352, 2360, 2306, 2360, 2381, 2325, 2371, 2340,
                  32, 2324, 2352, 32, 2350, 2368, 2336, 2375, 32, 2326, 2366, 2342, 2381, 2351, 32, 2346, 2342, 2366, 2352, 2381, 2341, 2379,
                  2306, 32, 2325, 2379, 32, 2360, 2368, 2350, 2367, 2340, 32, 2325, 2352, 2375, 2306, 10, 8226, 32, 56, 45, 49, 48,
                  32, 2327, 2367, 2354, 2366, 2360, 32, 2346, 2366, 2344, 2368, 32, 2346, 2368, 2325, 2352, 32, 2361, 2366, 2311, 2337, 2381,
                  2352, 2375, 2335, 2375, 2337, 32, 2352, 2361, 2375, 2306, 10, 8226, 32, 2349, 2366, 2327, 32, 2344, 2367, 2351, 2306, 2340,
                  2381, 2352, 2339, 32, 2325, 2366, 32, 2309, 2349, 2381, 2351, 2366, 2360, 32, 2325, 2352, 2375, 2306, 10, 10, 55357, 56481,
                  32, 42, 42, 2360, 2369, 2333, 2366, 2357, 58, 42, 42, 32, 2348, 2375, 2361, 2340, 2352, 32, 2346, 2379, 2359, 2339,
                  32, 2325, 2375, 32, 2354, 2367, 2319, 32, 2309, 2346, 2344, 2375, 32, 2349, 2379, 2332, 2344, 32, 2325, 2368, 32, 2346,
                  2361, 2354, 2375, 32, 2360, 2375, 32, 2351, 2379, 2332, 2344, 2366, 32, 2348, 2344, 2366, 2319, 2306, 33>>,
         hinglish |-> <<55358, 56663, 32, 42, 42, 72, 101, 97, 108, 116, 104, 121, 32, 68, 105, 101, 116, 32, 71, 117, 105, 100,
                        101, 108, 105, 110, 101, 115, 58, 42, 42, 10, 10, 8226, 32, 68, 97, 105, 108, 121, 32, 102, 114, 117,
                        105, 116, 115, 32, 97, 117, 114, 32, 118, 101, 103, 101, 116, 97, 98, 108, 101, 115, 32, 107, 101, 32,
                        53, 32, 115, 101, 114, 118, 105, 110, 103, 115, 32, 107, 104, 97, 121, 101, 10, 8226, 32, 82, 101, 102,
                        105, 110, 101, 100, 32, 103, 114, 97, 105, 110, 115, 32, 107, 101, 32, 98, 97, 106, 97, 121, 101, 32,
                        119, 104, 111, 108, 101, 32, 103, 114, 97, 105, 110, 115, 32, 99, 104, 111, 111, 115, 101, 32, 107, 97,
                        114, 105, 121, 101, 10, 8226, 32, 76, 101, 97, 110, 32, 112, 114, 111, 116, 101, 105, 110, 115, 32, 105,
                        110, 99, 108, 117, 100, 101, 32, 107, 97, 114, 105, 121, 101, 32, 40, 102, 105, 115, 104, 44, 32, 99,
                        104, 105, 99, 107, 101, 110, 44, 32, 100, 97, 108, 41, 10, 8226, 32, 80, 114, 111, 99, 101, 115, 115,
                        101, 100, 32, 97, 117, 114, 32, 115, 117, 103, 97, 114, 121, 32, 102, 111, 111, 100, 115, 32, 108, 105,
                        109, 105, 116, 32, 107, 97, 114, 105, 121, 101, 10, 8226, 32, 56, 45, 49, 48, 32, 103, 108, 97, 115,
                        115, 32, 112, 97, 97, 110, 105, 32, 112, 101, 101, 107, 101, 32, 104, 121, 100, 114, 97, 116, 101, 100,
                        32, 114, 97, 104, 101, 10, 8226, 32, 80, 111, 114, 116, 105, 111, 110, 32, 99, 111, 110, 116, 114, 111,
                        108, 32, 112, 114, 97, 99, 116, 105, 99, 101, 32, 107, 97, 114, 105, 121, 101, 10, 10, 55357, 56481, 32,
                        42, 42, 84, 105, 112, 58, 42, 42, 32, 66, 101, 116, 116, 101, 114, 32, 110, 117, 116, 114, 105, 116,
                        105, 111, 110, 32, 107, 101, 32, 108, 105, 121, 101, 32, 97, 112, 110, 101, 32, 109, 101, 97, 108, 115,
                        32, 97, 100, 118, 97, 110, 99, 101, 32, 109, 101, 105, 110, 32, 112, 108, 97, 110, 32, 107, 97, 114,
                        105, 121, 101, 33>>]]

\* title of getEmergencyContacts (knowledgeBaseService.js:338-342)
\*   en: "? **Emergency Contact Numbers (India):**" (41 code units)
\*   hi: "? **????????? ?????? ???? (????):**" (36 code units)
\*   hinglish: "? **Emergency Contact Numbers (India):**" (41 code units)
EmergencyContactsTitle ==
    [en |-> <<55357, 57000, 32, 42, 42, 69, 109, 101, 114, 103, 101, 110, 99, 121, 32, 67, 111, 110, 116, 97, 99, 116,
              32, 78, 117, 109, 98, 101, 114, 115, 32, 40, 73, 110, 100, 105, 97, 41, 58, 42, 42>>,
     hi |-> <<55357, 57000, 32, 42, 42, 2310, 2346, 2366, 2340, 2325, 2366, 2354, 2368, 2344, 32, 2360, 2306, 2346, 2352, 2381, 2325, 32,
              2344, 2306, 2348, 2352, 32, 40, 2349, 2366, 2352, 2340, 41, 58, 42, 42>>,
     hinglish |-> <<55357, 57000, 32, 42, 42, 69, 109, 101, 114, 103, 101, 110, 99, 121, 32, 67, 111, 110, 116, 97, 99, 116,
                    32, 78, 117, 109, 98, 101, 114, 115, 32, 40, 73, 110, 100, 105, 97, 41, 58, 42, 42>>]
\* urgentAdvice of getEmergencyContacts (knowledgeBaseService.js:347-351)
\*   en: "/?? **For immediate medical emergency, dial 112**" (49 code units)
\*   hi: "/?? **?????? ???????? ??????? ??? 112 ???? ????**" (49 code units)
\*   hinglish: "/?? **Medical emergency mein turant 112 dial kariy..." (53 code units)
urgentAdvice ==
    [en |-> <<10, 9888, 65039, 32, 42, 42, 70, 111, 114, 32, 105, 109, 109, 101, 100, 105, 97, 116, 101, 32, 109, 101,
              100, 105, 99, 97, 108, 32, 101, 109, 101, 114, 103, 101, 110, 99, 121, 44, 32, 100, 105, 97, 108, 32,
              49, 49, 50, 42, 42>>,
     hi |-> <<10, 9888, 65039, 32, 42, 42, 2340, 2340, 2381, 2325, 2366, 2354, 32, 2330, 2367, 2325, 2367, 2340, 2381, 2360, 2366, 32,
              2310, 2346, 2366, 2340, 2325, 2366, 2354, 32, 2350, 2375, 2306, 32, 49, 49, 50, 32, 2337, 2366, 2351, 2354, 32, 2325,
              2352, 2375, 2306, 42, 42>>,
     hinglish |-> <<10, 9888, 65039, 32, 42, 42, 77, 101, 100, 105, 99, 97, 108, 32, 101, 109, 101, 114, 103, 101, 110, 99,
                    121, 32, 109, 101, 105, 110, 32, 116, 117, 114, 97, 110, 116, 32, 49, 49, 50, 32, 100, 105, 97, 108,
                    32, 107, 97, 114, 105, 121, 101, 42, 42>>]

\* disclaimers of getDisclaimer (knowledgeBaseService.js:360-364)
\*   en: "/?? **DISCLAIMER:** This information is for educat..." (166 code units)
\*   hi: "/?? **???????:** ?? ??????? ???? ??????? ?????????..." (141 code units)
\*   hinglish: "/?? **DISCLAIMER:** Ye information sirf educationa..." (180 code units)
disclaimers ==
    [en |-> <<10, 9888, 65039, 32, 42, 42, 68, 73, 83, 67, 76, 65, 73, 77, 69, 82, 58, 42, 42, 32, 84, 104,
              105, 115, 32, 105, 110, 102, 111, 114, 109, 97, 116, 105, 111, 110, 32, 105, 115, 32, 102, 111, 114, 32,
              101, 100, 117, 99, 97, 116, 105, 111, 110, 97, 108, 32, 112, 117, 114, 112, 111, 115, 101, 115, 32, 111,
              110, 108, 121, 46, 32, 65, 108, 119, 97, 121, 115, 32, 99, 111, 110, 115, 117, 108, 116, 32, 97, 32,
              113, 117, 97, 108, 105, 102, 105, 101, 100, 32, 104, 101, 97, 108, 116, 104, 99, 97, 114, 101, 32, 112,
              114, 111, 102, 101, 115, 115, 105, 111, 110, 97, 108, 32, 102, 111, 114, 32, 109, 101, 100, 105, 99, 97,
              108, 32, 97, 100, 118, 105, 99, 101, 44, 32, 100, 105, 97, 103, 110, 111, 115, 105, 115, 44, 32, 111,
              114, 32, 116, 114, 101, 97, 116, 109, 101, 110, 116, 46>>,
     hi |-> <<10, 9888, 65039, 32, 42, 42, 2330, 2375, 2340, 2366, 2357, 2344, 2368, 58, 42, 42, 32, 2351, 2361, 32, 2332, 2366,
              2344, 2325, 2366, 2352, 2368, 32, 2325, 2375, 2357, 2354, 32, 2358, 2376, 2325, 2381, 2359, 2367, 2325, 32, 2313, 2342, 2381,
              2342, 2375, 2358, 2381, 2351, 2379, 2306, 32, 2325, 2375, 32, 2354, 2367, 2319, 32, 2361, 2376, 2404, 32, 2330, 2367, 2325,
              2367, 2340, 2381, 2360, 2366, 32, 2360, 2354, 2366, 2361, 44, 32, 2344, 2367, 2342, 2366, 2344, 32, 2351, 2366, 32, 2313,
              2346, 2330, 2366, 2352, 32, 2325, 2375, 32, 2354, 2367, 2319, 32, 2361, 2350, 2375, 2358, 2366, 32, 2351, 2379, 2327, 2381,
              2351, 32, 2360, 2381, 2357, 2366, 2360, 2381, 2341, 2381, 2351, 32, 2346, 2375, 2358, 2375, 2357, 2352, 32, 2360, 2375, 32,
              2360, 2354, 2366, 2361, 32, 2354, 2375, 2306, 2404>>,
     hinglish |-> <<10, 9888, 65039, 32, 42, 42, 68, 73, 83, 67, 76, 65, 73, 77, 69, 82, 58, 42, 42, 32, 89, 101,
                    32, 105, 110, 102, 111, 114, 109, 97, 116, 105, 111, 110, 32, 115, 105, 114, 102, 32, 101, 100, 117, 99,
                    97, 116, 105, 111, 110, 97, 108, 32, 112, 117, 114, 112, 111, 115, 101, 32, 107, 101, 32, 108, 105, 121,
                    101, 32, 104, 97, 105, 46, 32, 77, 101, 100, 105, 99, 97, 108, 32, 97, 100, 118, 105, 99, 101, 44,
                    32, 100, 105, 97, 103, 110, 111, 115, 105, 115, 32, 121, 97, 32, 116, 114, 101, 97, 116, 109, 101, 110,
                    116, 32, 107, 101, 32, 108, 105, 121, 101, 32, 104, 97, 109, 101, 115, 104, 97, 32, 113, 117, 97, 108,
                    105, 102, 105, 101, 100, 32, 104, 101, 97, 108, 116, 104, 99, 97, 114, 101, 32, 112, 114, 111, 102, 101,
                    115, 115, 105, 111, 110, 97, 108, 32, 115, 101, 32, 99, 111, 110, 115, 117, 108, 116, 32, 107, 97, 114,
                    105, 121, 101, 46>>]

\* responses of getDefaultResponse (knowledgeBaseService.js:371-375)
\*   en: "I understand you have a health concern. While I ha..." (259 code units)
\*   hi: "??? ????? ??? ?? ???? ????????? ?????? ????? ??? ?..." (273 code units)
\*   hinglish: "Main samajh sakta hun ki aapki health concern hai...." (307 code units)
responses ==
    [en |-> <<73, 32, 117, 110, 100, 101, 114, 115, 116, 97, 110, 100, 32, 121, 111, 117, 32, 104, 97, 118, 101, 32,
              97, 32, 104, 101, 97, 108, 116, 104, 32, 99, 111, 110, 99, 101, 114, 110, 46, 32, 87, 104, 105, 108,
              101, 32, 73, 32, 104, 97, 118, 101, 32, 105, 110, 102, 111, 114, 109, 97, 116, 105, 111, 110, 32, 97,
              98, 111, 117, 116, 32, 99, 111, 109, 109, 111, 110, 32, 104, 101, 97, 108, 116, 104, 32, 99, 111, 110,
              100, 105, 116, 105, 111, 110, 115, 44, 32, 73, 32, 114, 101, 99, 111, 109, 109, 101, 110, 100, 32, 99,
              111, 110, 115, 117, 108, 116, 105, 110, 103, 32, 119, 105, 116, 104, 32, 97, 32, 104, 101, 97, 108, 116,
              104, 99, 97, 114, 101, 32, 112, 114, 111, 102, 101, 115, 115, 105, 111, 110, 97, 108, 32, 102, 111, 114,
              32, 112, 101, 114, 115, 111, 110, 97, 108, 105, 122, 101, 100, 32, 97, 100, 118, 105, 99, 101, 46, 32,
              89, 111, 117, 32, 99, 97, 110, 32, 97, 108, 115, 111, 32, 97, 115, 107, 32, 109, 101, 32, 97, 98,
              111, 117, 116, 32, 115, 112, 101, 99, 105, 102, 105, 99, 32, 100, 105, 115, 101, 97, 115, 101, 115, 44,
              32, 115, 121, 109, 112, 116, 111, 109, 115, 44, 32, 111, 114, 32, 103, 101, 110, 101, 114, 97, 108, 32,
              104, 101, 97, 108, 116, 104, 32, 116, 111, 112, 105, 99, 115, 46, 32, 55356, 57317>>,
     hi |-> <<2350, 2376, 2306, 32, 2360, 2350, 2333, 2340, 2366, 32, 2361, 2370, 2306, 32, 2325, 2367, 32, 2310, 2346, 2325, 2368, 32,
              2360, 2381, 2357, 2366, 2360, 2381, 2341, 2381, 2351, 32, 2360, 2306, 2348, 2306, 2343, 2368, 32, 2330, 2367, 2306, 2340, 2366,
              32, 2361, 2376, 2404, 32, 2332, 2348, 2325, 2367, 32, 2350, 2375, 2352, 2375, 32, 2346, 2366, 2360, 32, 2360, 2366, 2350,
              2366, 2344, 2381, 2351, 32, 2360, 2381, 2357, 2366, 2360, 2381, 2341, 2381, 2351, 32, 2360, 2381, 2341, 2367, 2340, 2367, 2351,
              2379, 2306, 32, 2325, 2368, 32, 2332, 2366, 2344, 2325, 2366, 2352, 2368, 32, 2361, 2376, 44, 32, 2350, 2376, 2306, 32,
              2357, 2381, 2351, 2325, 2381, 2340, 2367, 2327, 2340, 32, 2360, 2354, 2366, 2361, 32, 2325, 2375, 32, 2354, 2367, 2319, 32,
              2360, 2381, 2357, 2366, 2360, 2381, 2341, 2381, 2351, 32, 2346, 2375, 2358, 2375, 2357, 2352, 32, 2360, 2375, 32, 2346, 2352,
              2366, 2350, 2352, 2381, 2358, 32, 2325, 2368, 32, 2360, 2354, 2366, 2361, 32, 2342, 2375, 2340, 2366, 32, 2361, 2370, 2306,
              2404, 32, 2310, 2346, 32, 2350, 2369, 2333, 2360, 2375, 32, 2357, 2367, 2358, 2367, 2359, 2381, 2335, 32, 2348, 2368, 2350,
              2366, 2352, 2367, 2351, 2379, 2306, 44, 32, 2354, 2325, 2381, 2359, 2339, 2379, 2306, 32, 2351, 2366, 32, 2360, 2366, 2350,
              2366, 2344, 2381, 2351, 32, 2360, 2381, 2357, 2366, 2360, 2381, 2341, 2381, 2351, 32, 2357, 2367, 2359, 2351, 2379, 2306, 32,
              2325, 2375, 32, 2348, 2366, 2352, 2375, 32, 2350, 2375, 2306, 32, 2349, 2368, 32, 2346, 2370, 2331, 32, 2360, 2325, 2340,
              2375, 32, 2361, 2376, 2306, 2404, 32, 55356, 57317>>,
     hinglish |-> <<77, 97, 105, 110, 32, 115, 97, 109, 97, 106, 104, 32, 115, 97, 107, 116, 97, 32, 104, 117, 110, 32,
                    107, 105, 32, 97, 97, 112, 107, 105, 32, 104, 101, 97, 108, 116, 104, 32, 99, 111, 110, 99, 101, 114,
                    110, 32, 104, 97, 105, 46, 32, 77, 101, 114, 101, 32, 112, 97, 97, 115, 32, 99, 111, 109, 109, 111,
                    110, 32, 104, 101, 97, 108, 116, 104, 32, 99, 111, 110, 100, 105, 116, 105, 111, 110, 115, 32, 107, 105,
                    32, 105, 110, 102, 111, 114, 109, 97, 116, 105, 111, 110, 32, 104, 97, 105, 44, 32, 108, 101, 107, 105,
                    110, 32, 112, 101, 114, 115, 111, 110, 97, 108, 105, 122, 101, 100, 32, 97, 100, 118, 105, 99, 101, 32,
                    107, 101, 32, 108, 105, 121, 101, 32, 104, 101, 97, 108, 116, 104, 99, 97, 114, 101, 32, 112, 114, 111,
                    102, 101, 115, 115, 105, 111, 110, 97, 108, 32, 115, 101, 32, 99, 111, 110, 115, 117, 108, 116, 32, 107,
                    97, 114, 110, 101, 32, 107, 105, 32, 114, 101, 99, 111, 109, 109, 101, 110, 100, 32, 107, 97, 114, 116,
                    97, 32, 104, 117, 110, 46, 32, 65, 97, 112, 32, 109, 117, 106, 104, 115, 101, 32, 115, 112, 101, 99,
                    105, 102, 105, 99, 32, 100, 105, 115, 101, 97, 115, 101, 115, 44, 32, 115, 121, 109, 112, 116, 111, 109,
                    115, 32, 121, 97, 32, 103, 101, 110, 101, 114, 97, 108, 32, 104, 101, 97, 108, 116, 104, 32, 116, 111,
                    112, 105, 99, 115, 32, 107, 101, 32, 98, 97, 97, 114, 101, 32, 109, 101, 105, 110, 32, 98, 104, 105,
                    32, 112, 111, 111, 99, 104, 32, 115, 97, 107, 116, 101, 32, 104, 97, 105, 110, 46, 32, 55356, 57317>>]

\* title of formatMultipleDiseaseMatches (knowledgeBaseService.js:288-292)
\*   en: "? **Your symptoms may be related to the following ..." (64 code units)
\*   hi: "? **???? ????? ?????????? ????????? ?? ??????? ?? ..." (62 code units)
\*   hinglish: "? **Aapke symptoms ye conditions se related ho sak..." (61 code units)
MultipleMatchesTitle ==
    [en |-> <<55357, 56589, 32, 42, 42, 89, 111, 117, 114, 32, 115, 121, 109, 112, 116, 111, 109, 115, 32, 109, 97, 121,
              32, 98, 101, 32, 114, 101, 108, 97, 116, 101, 100, 32, 116, 111, 32, 116, 104, 101, 32, 102, 111, 108,
              108, 111, 119, 105, 110, 103, 32, 99, 111, 110, 100, 105, 116, 105, 111, 110, 115, 58, 42, 42>>,
     hi |-> <<55357, 56589, 32, 42, 42, 2310, 2346, 2325, 2375, 32, 2354, 2325, 2381, 2359, 2339, 32, 2344, 2367, 2350, 2381, 2344, 2354,
              2367, 2326, 2367, 2340, 32, 2360, 2381, 2341, 2367, 2340, 2367, 2351, 2379, 2306, 32, 2360, 2375, 32, 2360, 2306, 2348, 2306,
              2343, 2367, 2340, 32, 2361, 2379, 32, 2360, 2325, 2340, 2375, 32, 2361, 2376, 2306, 58, 42, 42>>,
     hinglish |-> <<55357, 56589, 32, 42, 42, 65, 97, 112, 107, 101, 32, 115, 121, 109, 112, 116, 111, 109, 115, 32, 121, 101,
                    32, 99, 111, 110, 100, 105, 116, 105, 111, 110, 115, 32, 115, 101, 32, 114, 101, 108, 97, 116, 101, 100,
                    32, 104, 111, 32, 115, 97, 107, 116, 101, 32, 104, 97, 105, 110, 58, 42, 42>>]
\* advice of formatMultipleDiseaseMatches (knowledgeBaseService.js:303-307)
\*   en: "? **Suggestion:** Please consult a doctor for accu..." (96 code units)
\*   hi: "? **?????:** ???? ????? ?? ??? ????? ?????? ?? ???..." (92 code units)
\*   hinglish: "? **Suggestion:** Accurate diagnosis ke liye docto..." (109 code units)
MultipleMatchesAdvice ==
    [en |-> <<55357, 56481, 32, 42, 42, 83, 117, 103, 103, 101, 115, 116, 105, 111, 110, 58, 42, 42, 32, 80, 108, 101,
              97, 115, 101, 32, 99, 111, 110, 115, 117, 108, 116, 32, 97, 32, 100, 111, 99, 116, 111, 114, 32, 102,
              111, 114, 32, 97, 99, 99, 117, 114, 97, 116, 101, 32, 100, 105, 97, 103, 110, 111, 115, 105, 115, 32,
              97, 110, 100, 32, 100, 105, 115, 99, 117, 115, 115, 32, 97, 108, 108, 32, 121, 111, 117, 114, 32, 115,
              121, 109, 112, 116, 111, 109, 115, 46>>,
     hi |-> <<55357, 56481, 32, 42, 42, 2360, 2369, 2333, 2366, 2357, 58, 42, 42, 32, 2360, 2335, 2368, 2325, 32, 2344, 2367, 2342,
              2366, 2344, 32, 2325, 2375, 32, 2354, 2367, 2319, 32, 2325, 2371, 2346, 2351, 2366, 32, 2337, 2377, 2325, 2381, 2335, 2352,
              32, 2360, 2375, 32, 2350, 2367, 2354, 2375, 2306, 32, 2324, 2352, 32, 2309, 2346, 2344, 2375, 32, 2360, 2349, 2368, 32,
              2354, 2325, 2381, 2359, 2339, 2379, 2306, 32, 2325, 2375, 32, 2348, 2366, 2352, 2375, 32, 2350, 2375, 2306, 32, 2348, 2340,
              2366, 2319, 2306, 2404>>,
     hinglish |-> <<55357, 56481, 32, 42, 42, 83, 117, 103, 103, 101, 115, 116, 105, 111, 110, 58, 42, 42, 32, 65, 99, 99,
                    117, 114, 97, 116, 101, 32, 100, 105, 97, 103, 110, 111, 115, 105, 115, 32, 107, 101, 32, 108, 105, 121,
                    101, 32, 100, 111, 99, 116, 111, 114, 32, 115, 101, 32, 109, 105, 108, 105, 121, 101, 32, 97, 117, 114,
                    32, 97, 112, 110, 101, 32, 115, 97, 97, 114, 101, 32, 115, 121, 109, 112, 116, 111, 109, 115, 32, 107,
                    101, 32, 98, 97, 97, 114, 101, 32, 109, 101, 105, 110, 32, 98, 97, 116, 97, 105, 121, 101, 46>>]

\* the fixed parts of the template strings of formatDiseaseInfo
\* (knowledgeBaseService.js:239-274) and getEmergencyContacts (line 345)
\*   name: "? **" (5 code units)
\*   bold: "**" (2 code units)
\*   symptoms: "**????? / Symptoms:**" (21 code units)
\*   types: "**?????? / Types:**" (19 code units)
\*   causes: "**???? / Causes:**" (18 code units)
\*   management: "**??????? / Management:**" (25 code units)
\*   prevention: "**?????? / Prevention:**" (24 code units)
\*   emergency_signs: "? **????????? ????? / Emergency Signs:**" (41 code units)
\*   home_remedies: "? **????? ???? / Home Remedies:**" (34 code units)
\*   bullet: "? " (2 code units)
\*   warning: "?? " (3 code units)
\*   phone: "? " (3 code units)
SectionText ==
    [name |-> <<55357, 56523, 32, 42, 42>>,
     bold |-> <<42, 42>>,
     symptoms |-> <<42, 42, 2354, 2325, 2381, 2359, 2339, 32, 47, 32, 83, 121, 109, 112, 116, 111, 109, 115, 58, 42, 42>>,
     types |-> <<42, 42, 2346, 2381, 2352, 2325, 2366, 2352, 32, 47, 32, 84, 121, 112, 101, 115, 58, 42, 42>>,
     causes |-> <<42, 42, 2325, 2366, 2352, 2339, 32, 47, 32, 67, 97, 117, 115, 101, 115, 58, 42, 42>>,
     management |-> <<42, 42, 2346, 2381, 2352, 2348, 2306, 2343, 2344, 32, 47, 32, 77, 97, 110, 97, 103, 101, 109, 101, 110, 116,
                      58, 42, 42>>,
     prevention |-> <<42, 42, 2352, 2379, 2325, 2341, 2366, 2350, 32, 47, 32, 80, 114, 101, 118, 101, 110, 116, 105, 111, 110, 58,
                      42, 42>>,
     emergency_signs |-> <<55357, 57000, 32, 42, 42, 2310, 2346, 2366, 2340, 2325, 2366, 2354, 2368, 2344, 32, 2360, 2306, 2325, 2375, 2340, 32, 47,
                           32, 69, 109, 101, 114, 103, 101, 110, 99, 121, 32, 83, 105, 103, 110, 115, 58, 42, 42>>,
     home_remedies |-> <<55356, 57312, 32, 42, 42, 2328, 2352, 2375, 2354, 2370, 32, 2313, 2346, 2366, 2351, 32, 47, 32, 72, 111, 109, 101,
                         32, 82, 101, 109, 101, 100, 105, 101, 115, 58, 42, 42>>,
     bullet |-> <<8226, 32>>,
     warning |-> <<9888, 65039, 32>>,
     phone |-> <<55357, 56542, 32>>]

\* getDisclaimer(language)
GetDisclaimer(language) == Localized(disclaimers, language)

\* getDefaultResponse(language)
GetDefaultResponse(language) == Localized(responses, language)

\* getDirectSymptomResponse(query, language): the text of the first common symptom
\* one of whose keywords the query includes, else of the first Hindi or Hinglish
\* word the query includes, else null
GetDirectSymptomResponse(query, language) ==
    LET SymptomKeywordsOf(symptom) ==
            {symptom, symptom \o SuffixS, PrefixIHave \o symptom, symptom \o SuffixProblem}
        direct == {k \in 1..Len(SymptomNames) :
                     \E keyword \in SymptomKeywordsOf(SymptomWord[SymptomNames[k]]) :
                         Includes(query, keyword)}
        hindi == {k \in 1..Len(hindiSymptoms) : Includes(query, hindiSymptoms[k].word)}
    IN  IF direct # {}
        THEN Localized(commonSymptoms[SymptomNames[Min(direct)]], language)
        ELSE IF hindi # {}
        THEN Localized(commonSymptoms[hindiSymptoms[Min(hindi)].symptom], language)
        ELSE Null

\* checkKeywordMatch(query, keywords)
CheckKeywordMatch(query, keywords) ==
    LET queryWords == SplitOn(query, {32})
    IN  \E keyword \in keywords : \E w \in 1..Len(queryWords) :
            Includes(keyword, queryWords[w]) \/ Includes(queryWords[w], keyword)

\* checkSymptomKeywords(query, symptom)
CheckSymptomKeywords(query, symptom) ==
    \E keyword \in symptomKeywords : Includes(query, keyword) \/ Includes(symptom, keyword)

\* the text a template literal gives an undefined value: 'undefined'
UndefinedText == <<117, 110, 100, 101, 102, 105, 110, 101, 100>>

\* the call throws a TypeError instead of returning a text (no string holds a
\* code unit -2)
TypeErrorThrown == <<-2>>

\* formatDiseaseInfo with its sections kept from one call to the next
FormatDiseaseInfoKeepingSections(diseaseInfo, language) ==
    IF formatting.last.text = Null
    THEN GetDisclaimer(language)
    ELSE formatting.last.text \o <<10>> \o GetDisclaimer(language)

\* formatDiseaseInfo(diseaseInfo, language): the sections joined by newlines
FormatDiseaseInfo(diseaseInfo, language) ==
    LET Marked(items, mark) == [i \in 1..Len(items) |-> mark \o items[i]]
        Section(header, items, mark) == <<header>> \o Marked(items, mark) \o << <<>> >>
        Optional(field, header, mark) ==
            IF field \in DOMAIN diseaseInfo THEN Section(header, diseaseInfo[field], mark) ELSE <<>>
        \* `${diseaseInfo[field]}`: a missing field reads as undefined
        Interpolated(field) ==
            IF field \in DOMAIN diseaseInfo THEN diseaseInfo[field] ELSE UndefinedText
        sections ==
            << SectionText.name \o Interpolated("name") \o SectionText.bold \o <<10>>,
               Interpolated("definition") \o <<10>> >>
            \o Optional("types", SectionText.types, SectionText.bullet)
            \o Section(SectionText.symptoms, diseaseInfo.symptoms, SectionText.bullet)
            \o Optional("causes", SectionText.causes, SectionText.bullet)
            \o Section(SectionText.management, diseaseInfo.management, SectionText.bullet)
            \o Section(SectionText.prevention, diseaseInfo.prevention, SectionText.bullet)
            \o Optional("emergency_signs", SectionText.emergency_signs, SectionText.warning)
            \o Optional("home_remedies", SectionText.home_remedies, SectionText.bullet)
            \o << GetDisclaimer(language) >>
    IN  \* diseaseInfo.symptoms.forEach(...) on a missing field: a TypeError
        IF {"symptoms", "management", "prevention"} \subseteq DOMAIN diseaseInfo
        THEN Join(sections, <<10>>)
        ELSE TypeErrorThrown

\* formatMultipleDiseaseMatches(matches, language), for at most nine matches
FormatMultipleDiseaseMatches(matches, language) ==
    LET title == IF language = "hi" THEN MultipleMatchesTitle.hi
                 ELSE IF language = "hinglish" THEN MultipleMatchesTitle.hinglish
                 ELSE MultipleMatchesTitle.en
        RECURSIVE Entries(_)
        Entries(i) ==
            IF i > Len(matches) THEN <<>>
            ELSE << <<48 + i, 46, 32, 42, 42>> \o matches[i].name \o <<42, 42>>,
                    <<32, 32, 32>> \o matches[i].definition,
                    <<>> >> \o Entries(i + 1)
        suggestion == IF language = "hi" THEN MultipleMatchesAdvice.hi
                      ELSE IF language = "hinglish" THEN MultipleMatchesAdvice.hinglish
                      ELSE MultipleMatchesAdvice.en
    IN  Join(<<title, <<>> >> \o Entries(1) \o <<suggestion, <<>>, GetDisclaimer(language)>>, <<10>>)

\* searchDiseases(query, language)
SearchDiseases(kb, query, language) ==
    LET diseases == kb.diseases
        Info(k) == Localized(diseases[k].data, language)
        hits == {k \in 1..Len(diseases) :
                    \/ Includes(diseases[k].key, query)
                    \/ Includes(ToLowerCase(Info(k).name), query)
                    \/ CheckKeywordMatch(query, {diseases[k].key, ToLowerCase(Info(k).name)})}
    IN  IF hits = {} THEN Null ELSE FormatDiseaseInfo(Info(Min(hits)), language)

\* searchBySymptoms(query, language)
SearchBySymptoms(kb, query, language) ==
    LET diseases == kb.diseases
        Info(k) == Localized(diseases[k].data, language)
        SymptomMatch(k) ==
            \E i \in 1..Len(Info(k).symptoms) :
                \/ Includes(ToLowerCase(Info(k).symptoms[i]), query)
                \/ CheckSymptomKeywords(query, ToLowerCase(Info(k).symptoms[i]))
        matched == SelectSeq([k \in 1..Len(diseases) |-> k], SymptomMatch)
        matchedDiseases == [j \in 1..Len(matched) |-> Info(matched[j])]
    IN  IF Len(matchedDiseases) > 0
        THEN IF Len(matchedDiseases) = 1
             THEN FormatDiseaseInfo(matchedDiseases[1], language)
             ELSE FormatMultipleDiseaseMatches(matchedDiseases, language)
        ELSE Null

\* getGeneralHealthAdvice(topic, language)
GetGeneralHealthAdvice(topic, language) ==
    IF topic \in DOMAIN advice
    THEN Localized(advice[topic], language)
    ELSE GetDefaultResponse(language)

\* searchGeneralHealth(query, language)
SearchGeneralHealth(query, language) ==
    LET hits == {k \in 1..Len(healthKeywords) :
                    \E keyword \in healthKeywords[k].keywords : Includes(query, keyword)}
    IN  IF hits = {} THEN Null ELSE GetGeneralHealthAdvice(healthKeywords[Min(hits)].topic, language)

\* getEmergencyContacts(language)
GetEmergencyContacts(kb, language) ==
    LET contacts == kb.emergency_contacts
        title == IF language = "hi" THEN EmergencyContactsTitle.hi
                 ELSE IF language = "hinglish" THEN EmergencyContactsTitle.hinglish
                 ELSE EmergencyContactsTitle.en
        advise == IF language = "hi" THEN urgentAdvice.hi
                  ELSE IF language = "hinglish" THEN urgentAdvice.hinglish
                  ELSE urgentAdvice.en
    IN  Join(<<title, <<>> >>
             \o [i \in 1..Len(contacts) |-> SectionText.phone \o contacts[i]]
             \o <<advise>>, <<10>>)

\* searchEmergencyInfo(query, language)
SearchEmergencyInfo(kb, query, language) ==
    IF \E keyword \in KbEmergencyKeywords : Includes(query, keyword)
    THEN GetEmergencyContacts(kb, language)
    ELSE Null

\* searchHealthInfo with the general topics tried before the diseases
SearchHealthInfoGeneralFirst(kb, query, language) ==
    LET lowerQuery == ToLowerCase(query)
        directSymptomResponse == GetDirectSymptomResponse(lowerQuery, language)
        diseaseInfo == SearchDiseases(kb, lowerQuery, language)
        symptomInfo == SearchBySymptoms(kb, lowerQuery, language)
        generalInfo == SearchGeneralHealth(lowerQuery, language)
        emergencyInfo == SearchEmergencyInfo(kb, lowerQuery, language)
    IN  IF Truthy(directSymptomResponse) THEN directSymptomResponse
        ELSE IF Truthy(generalInfo) THEN generalInfo
        ELSE IF Truthy(diseaseInfo) THEN diseaseInfo
        ELSE IF Truthy(symptomInfo) THEN symptomInfo
        ELSE IF Truthy(emergencyInfo) THEN emergencyInfo
        ELSE GetDefaultResponse(language)

\* searchHealthInfo(query, language): the first search that finds something,
\* else the default response
SearchHealthInfo(kb, query, language) ==
    LET lowerQuery == ToLowerCase(query)
        directSymptomResponse == GetDirectSymptomResponse(lowerQuery, language)
        diseaseInfo == SearchDiseases(kb, lowerQuery, language)
        symptomInfo == SearchBySymptoms(kb, lowerQuery, language)
        generalInfo == SearchGeneralHealth(lowerQuery, language)
        emergencyInfo == SearchEmergencyInfo(kb, lowerQuery, language)
    IN  IF Truthy(directSymptomResponse) THEN directSymptomResponse
        ELSE IF Truthy(diseaseInfo) THEN diseaseInfo
        ELSE IF Truthy(symptomInfo) THEN symptomInfo
        ELSE IF Truthy(generalInfo) THEN generalInfo
        ELSE IF Truthy(emergencyInfo) THEN emergencyInfo
        ELSE GetDefaultResponse(language)

----------------------------------------------------------------------------
(* The generation providers, as AIService sees them *)

\* this.providers, in the order of the array (aiService.js:199-203)
Providers == <<"gemini", "huggingface", "openai">>
ProviderNames == {Providers[i] : i \in 1..Len(Providers)}

\* A confidence is written in tenths: 5 is 0.5.

\* greetings of GeminiService.isGreeting:
\* hi, hello, hey, hii, helo, hallo, hlw, hlo, hai, namaste, namaskar, pranam
\* salaam, adaab, sat sri akal, good morning, good afternoon, good evening, gm, gn
greetings ==
    {<<104, 105>>,
     <<104, 101, 108, 108, 111>>,
     <<104, 101, 121>>,
     <<104, 105, 105>>,
     <<104, 101, 108, 111>>,
     <<104, 97, 108, 108, 111>>,
     <<104, 108, 119>>,
     <<104, 108, 111>>,
     <<104, 97, 105>>,
     <<110, 97, 109, 97, 115, 116, 101>>,
     <<110, 97, 109, 97, 115, 107, 97, 114>>,
     <<112, 114, 97, 110, 97, 109>>,
     <<115, 97, 108, 97, 97, 109>>,
     <<97, 100, 97, 97, 98>>,
     <<115, 97, 116, 32, 115, 114, 105, 32, 97, 107, 97, 108>>,
     <<103, 111, 111, 100, 32, 109, 111, 114, 110, 105, 110, 103>>,
     <<103, 111, 111, 100, 32, 97, 102, 116, 101, 114, 110, 111, 111, 110>>,
     <<103, 111, 111, 100, 32, 101, 118, 101, 110, 105, 110, 103>>,
     <<103, 109>>,
     <<103, 110>>}

\* GeminiService.isGreeting(query)
IsGreeting(query) ==
    LET normalizedQuery == Trim(ToLowerCase(query))
        n == Len(normalizedQuery)
        StartsWith(s, p) == Len(p) <= Len(s) /\ SubSeq(s, 1, Len(p)) = p
        EndsWith(s, p) == Len(p) <= Len(s) /\ SubSeq(s, Len(s) - Len(p) + 1, Len(s)) = p
    IN  IF n <= 5
        THEN \E greeting \in greetings :
                \/ normalizedQuery = greeting
                \/ Includes(greeting, normalizedQuery)
                \/ Includes(normalizedQuery, greeting)
        ELSE \E greeting \in greetings :
                \/ normalizedQuery = greeting
                \/ StartsWith(normalizedQuery, greeting \o <<32>>)
                \/ EndsWith(normalizedQuery, <<32>> \o greeting)

\* responses of GeminiService.getGreetingResponse
\*   en: "? Health Assistant: Hello! I provide quick health ..." (116 code units)
\*   hi: "? ????????? ?????: ??????! ??? ????????? ???? ????..." (87 code units)
\*   hinglish: "? Health Assistant: Namaste! Main health advice de..." (89 code units)
GreetingResponses ==
    [en |-> <<55358, 56954, 32, 72, 101, 97, 108, 116, 104, 32, 65, 115, 115, 105, 115, 116, 97, 110, 116, 58, 32, 72,
              101, 108, 108, 111, 33, 32, 73, 32, 112, 114, 111, 118, 105, 100, 101, 32, 113, 117, 105, 99, 107, 32,
              104, 101, 97, 108, 116, 104, 32, 97, 100, 118, 105, 99, 101, 32, 105, 110, 32, 69, 110, 103, 108, 105,
              115, 104, 44, 32, 72, 105, 110, 100, 105, 32, 38, 32, 72, 105, 110, 103, 108, 105, 115, 104, 46, 32,
              87, 104, 97, 116, 39, 115, 32, 121, 111, 117, 114, 32, 104, 101, 97, 108, 116, 104, 32, 113, 117, 101,
              115, 116, 105, 111, 110, 63>>,
     hi |-> <<55358, 56954, 32, 2360, 2381, 2357, 2366, 2360, 2381, 2341, 2381, 2351, 32, 2360, 2361, 2366, 2351, 2325, 58, 32, 2344, 2350,
              2360, 2381, 2340, 2375, 33, 32, 2350, 2376, 2306, 32, 2360, 2381, 2357, 2366, 2360, 2381, 2341, 2381, 2351, 32, 2360, 2354,
              2366, 2361, 32, 2342, 2375, 2340, 2366, 32, 2361, 2370, 2306, 2404, 32, 2310, 2346, 2325, 2366, 32, 2360, 2381, 2357, 2366,
              2360, 2381, 2341, 2381, 2351, 32, 2346, 2381, 2352, 2358, 2381, 2344, 32, 2325, 2381, 2351, 2366, 32, 2361, 2376, 63>>,
     hinglish |-> <<55358, 56954, 32, 72, 101, 97, 108, 116, 104, 32, 65, 115, 115, 105, 115, 116, 97, 110, 116, 58, 32, 78,
                    97, 109, 97, 115, 116, 101, 33, 32, 77, 97, 105, 110, 32, 104, 101, 97, 108, 116, 104, 32, 97, 100,
                    118, 105, 99, 101, 32, 100, 101, 116, 97, 32, 104, 117, 110, 46, 32, 65, 97, 112, 107, 97, 32, 104,
                    101, 97, 108, 116, 104, 32, 113, 117, 101, 115, 116, 105, 111, 110, 32, 107, 121, 97, 32, 104, 97, 105,
                    63>>]

\* disclaimers of HuggingFaceService.formatHealthResponse
\*   en: "//?? Please consult a healthcare professional for ..." (72 code units)
\*   hi: "//?? ???? ???????? ???? ?? ??? ????? ????????? ???..." (66 code units)
\*   hinglish: "//?? Proper medical advice ke liye healthcare prof..." (77 code units)
HuggingFaceDisclaimers ==
    [en |-> <<10, 10, 9888, 65039, 32, 80, 108, 101, 97, 115, 101, 32, 99, 111, 110, 115, 117, 108, 116, 32, 97, 32,
              104, 101, 97, 108, 116, 104, 99, 97, 114, 101, 32, 112, 114, 111, 102, 101, 115, 115, 105, 111, 110, 97,
              108, 32, 102, 111, 114, 32, 112, 114, 111, 112, 101, 114, 32, 109, 101, 100, 105, 99, 97, 108, 32, 97,
              100, 118, 105, 99, 101, 46>>,
     hi |-> <<10, 10, 9888, 65039, 32, 2313, 2330, 2367, 2340, 32, 2330, 2367, 2325, 2367, 2340, 2381, 2360, 2366, 32, 2360, 2354, 2366,
              2361, 32, 2325, 2375, 32, 2354, 2367, 2319, 32, 2325, 2371, 2346, 2351, 2366, 32, 2360, 2381, 2357, 2366, 2360, 2381, 2341,
              2381, 2351, 32, 2346, 2375, 2358, 2375, 2357, 2352, 32, 2360, 2375, 32, 2360, 2354, 2366, 2361, 32, 2354, 2375, 2306, 2404>>,
     hinglish |-> <<10, 10, 9888, 65039, 32, 80, 114, 111, 112, 101, 114, 32, 109, 101, 100, 105, 99, 97, 108, 32, 97, 100,
                    118, 105, 99, 101, 32, 107, 101, 32, 108, 105, 121, 101, 32, 104, 101, 97, 108, 116, 104, 99, 97, 114,
                    101, 32, 112, 114, 111, 102, 101, 115, 115, 105, 111, 110, 97, 108, 32, 115, 101, 32, 99, 111, 110, 115,
                    117, 108, 116, 32, 107, 97, 114, 105, 121, 101, 46>>]

\* HuggingFaceService.formatHealthResponse(rawResponse, language) for a raw text
\* that holds no echo of the prompt and no run of blank lines: the trimmed text
\* and the disclaimer of the language
FormatHealthResponse(rawResponse, language) ==
    Trim(rawResponse) \o Localized(HuggingFaceDisclaimers, language)

\* what the services of the providers answer when they answer
\* the text "Take rest and drink plenty of water. See doctor if symptoms persist."
GeminiText ==
    <<84, 97, 107, 101, 32, 114, 101, 115, 116, 32, 97, 110, 100, 32, 100, 114, 105, 110, 107, 32, 112, 108, 101, 110,
      116, 121, 32, 111, 102, 32, 119, 97, 116, 101, 114, 46, 32, 83, 101, 101, 32, 100, 111, 99, 116, 111, 114, 32,
      105, 102, 32, 115, 121, 109, 112, 116, 111, 109, 115, 32, 112, 101, 114, 115, 105, 115, 116, 46>>
\* the text " Drink fluids and rest. "
HuggingFaceRawText == <<32, 68, 114, 105, 110, 107, 32, 102, 108, 117, 105, 100, 115, 32, 97, 110, 100, 32, 114, 101, 115, 116, 46, 32>>
\* the text "Rest and stay hydrated."
OpenAIText == <<82, 101, 115, 116, 32, 97, 110, 100, 32, 115, 116, 97, 121, 32, 104, 121, 100, 114, 97, 116, 101, 100, 46>>

\* the result of a provider call: it threw, or it returned {message, confidence}
Thrown == [kind |-> "throw", message |-> Null, confidence |-> 0]
Returned(message, confidence) == [kind |-> "return", message |-> message, confidence |-> confidence]
\* no result yet
NotCalled == [kind |-> "none", message |-> Null, confidence |-> 0]
\* the request of the service gets no answer and the service has set no timeout
\* for it (generateContent and chat.completions.create are called without one;
\* the requests of the Hugging Face service carry timeout: 30000 and throw)
NeverSettles == [kind |-> "pending", message |-> Null, confidence |-> 0]
\* the conversational model gave nothing: the text generation model is asked
TryTextGeneration == [kind |-> "textGeneration", message |-> Null, confidence |-> 0]

\* GeminiService.processHealthQuery: throws when not configured, on an error of
\* the API and on an empty text; a greeting is answered without the API;
\* processHealthResponse can leave nothing of a text
GeminiOutcomes(configured, query, language) ==
    IF ~configured THEN {Thrown}
    ELSE IF IsGreeting(query) THEN {Returned(Localized(GreetingResponses, language), 10)}
    ELSE {Thrown, Returned(<<>>, 9), Returned(GeminiText, 9), NeverSettles}

\* HuggingFaceService.processHealthQuery up to the answer of the conversational
\* model: a text ends the call, an error or an empty text leads to the text
\* generation model
HuggingFaceConversationalOutcomes(configured, language) ==
    IF ~configured THEN {Thrown}
    ELSE {TryTextGeneration, Returned(FormatHealthResponse(HuggingFaceRawText, language), 8)}

\* HuggingFaceService.processHealthQuery from the answer of the text generation
\* model on: an error or an empty text is thrown
HuggingFaceTextOutcomes(language) ==
    {Thrown, Returned(FormatHealthResponse(HuggingFaceRawText, language), 7)}

\* OpenAIService.processHealthQuery: throws when not configured, on an error of
\* the API and on an empty text, else returns the trimmed text
OpenAIOutcomes(configured) ==
    IF ~configured THEN {Thrown} ELSE {Thrown, Returned(Trim(OpenAIText), 9), NeverSettles}

----------------------------------------------------------------------------
(* LanguageService *)

\* hinglishKeywords of isHinglish (supabaseService.js:594-602)
hinglishKeywords ==
    {<<104, 97, 105>>, <<104, 97, 105, 110>>, <<107, 121, 97>>, <<107, 97, 105, 115, 101>>,
     <<107, 97, 104, 97, 110>>, <<107, 97, 98>>, <<107, 121, 117, 110>>, <<107, 97, 117, 110>>,
     <<109, 101, 105, 110>>, <<109, 97, 105, 110>>, <<116, 117>>, <<116, 117, 109>>,
     <<97, 97, 112>>, <<104, 117, 109>>, <<119, 111, 104>>, <<121, 101, 104>>,
     <<121, 101>>, <<107, 97, 114>>, <<107, 97, 114, 111>>, <<107, 97, 114, 110, 97>>,
     <<104, 111>>, <<104, 111, 110, 97>>, <<116, 104, 97>>, <<116, 104, 105>>,
     <<116, 104, 101>>, <<97, 99, 104, 97>>, <<97, 99, 99, 104, 97>>, <<110, 97, 104, 105>>,
     <<110, 97, 104, 105, 110>>, <<104, 97, 97, 110>>, <<106, 105>>, <<98, 104, 105>>,
     <<98, 97, 97, 116>>, <<107, 117, 99, 104>>, <<107, 111, 105>>, <<115, 97, 98, 104, 105>>,
     <<115, 97, 98>>, <<97, 103, 97, 114>>, <<108, 101, 107, 105, 110>>, <<112, 97, 114>>,
     <<107, 101>>, <<107, 105>>, <<107, 97>>, <<115, 101>>,
     <<112, 101>>, <<99, 104, 97, 104, 105, 121, 101>>, <<106, 97, 105, 121, 101>>, <<100, 105, 106, 105, 121, 101>>,
     <<107, 105, 106, 105, 121, 101>>, <<98, 111, 108, 105, 121, 101>>, <<98, 97, 116, 97, 121, 101>>, <<115, 97, 109, 106, 104, 97>>,
     <<115, 97, 109, 106, 104, 97, 121, 101>>}

\* /^[a-zA-Z\s.,!?'"()-]+$/.test(text)
EnglishPattern(text) ==
    /\ Len(text) > 0
    /\ \A i \in 1..Len(text) :
          text[i] \in (65..90) \cup (97..122) \cup WhiteSpace \cup {46, 44, 33, 63, 39, 34, 40, 41, 45}

\* isHinglish(text)
IsHinglish(text) ==
    LET words == SplitWhiteSpace(ToLowerCase(text))
        hinglishMatches == SelectSeq(words, LAMBDA word : \E keyword \in hinglishKeywords : Includes(word, keyword))
    IN  Len(hinglishMatches) > 0 /\ Len(words) > 1

\* what detectViaAPI can return: null without a key or on an error, else the
\* language the service names
ApiLanguages == {"none", "hi", "ta"}

\* detectLanguage testing the script last, after the word lists and the API
DetectLanguageScriptLast(text, viaApi) ==
    IF EnglishPattern(text) THEN "en"
    ELSE IF IsHinglish(text) THEN "hinglish"
    ELSE IF viaApi # "none" THEN viaApi
    ELSE IF HasDevanagari(text) THEN "hi" ELSE "en"

\* detectLanguage(text), given the answer of detectViaAPI
DetectLanguage(text, viaApi) ==
    IF HasDevanagari(text) THEN "hi"
    ELSE IF EnglishPattern(text) THEN "en"
    ELSE IF IsHinglish(text) THEN "hinglish"
    ELSE IF viaApi # "none" THEN viaApi ELSE "en"

\* whether detectLanguage(text) asks the API
DetectionAsksApi(text) == ~HasDevanagari(text) /\ ~EnglishPattern(text) /\ ~IsHinglish(text)

\* what a translation service can answer
\* a Devanagari text (aaram karen aur paani piyen)
TranslatedText == <<2310, 2352, 2366, 2350, 32, 2325, 2352, 2375, 2306, 32, 2324, 2352, 32, 2346, 2366, 2344, 2368, 32, 2346, 2367, 2319, 2306, 2404>>

\* translateText(text, targetLanguage), given the answer of the translation
\* services (null when none is configured or all fail): never throws
TranslateText(text, targetLanguage, apiResult) ==
    IF Truthy(apiResult) THEN apiResult ELSE text

----------------------------------------------------------------------------
(* AIService *)

\* aiService.js:278 'Previous conversation context:\n'
ContextHeader ==
    <<80, 114, 101, 118, 105, 111, 117, 115, 32, 99, 111, 110, 118, 101, 114, 115, 97, 116, 105, 111, 110, 32, 99, 111,
      110, 116, 101, 120, 116, 58, 10>>
\* aiService.js:278 '\n\nCurrent question: '
CurrentQuestionHeader == <<10, 10, 67, 117, 114, 114, 101, 110, 116, 32, 113, 117, 101, 115, 116, 105, 111, 110, 58, 32>>
\* aiService.js:275 'User: '
UserPrefix == <<85, 115, 101, 114, 58, 32>>
\* aiService.js:275 '\nBot: '
BotPrefix == <<10, 66, 111, 116, 58, 32>>

\* defaultResponses of getDefaultErrorResponse (aiService.js:366-370)
\*   en: "I apologize, but I'm having trouble processing you..." (169 code units)
\*   hi: "??? ????, ???? ??? ???? ????????? ?????? ?? ????? ..." (166 code units)
\*   hinglish: "Sorry, mujhe abhi aapke health question ko process..." (165 code units)
defaultResponses ==
    [en |-> <<73, 32, 97, 112, 111, 108, 111, 103, 105, 122, 101, 44, 32, 98, 117, 116, 32, 73, 39, 109, 32, 104,
              97, 118, 105, 110, 103, 32, 116, 114, 111, 117, 98, 108, 101, 32, 112, 114, 111, 99, 101, 115, 115, 105,
              110, 103, 32, 121, 111, 117, 114, 32, 104, 101, 97, 108, 116, 104, 32, 113, 117, 101, 114, 121, 32, 114,
              105, 103, 104, 116, 32, 110, 111, 119, 46, 32, 80, 108, 101, 97, 115, 101, 32, 116, 114, 121, 32, 97,
              103, 97, 105, 110, 32, 108, 97, 116, 101, 114, 32, 111, 114, 32, 99, 111, 110, 115, 117, 108, 116, 32,
              119, 105, 116, 104, 32, 97, 32, 104, 101, 97, 108, 116, 104, 99, 97, 114, 101, 32, 112, 114, 111, 102,
              101, 115, 115, 105, 111, 110, 97, 108, 32, 102, 111, 114, 32, 105, 109, 109, 101, 100, 105, 97, 116, 101,
              32, 97, 115, 115, 105, 115, 116, 97, 110, 99, 101, 46, 32, 55356, 57317>>,
     hi |-> <<2350, 2366, 2347, 32, 2325, 2352, 2375, 2306, 44, 32, 2350, 2369, 2333, 2375, 32, 2309, 2349, 2368, 32, 2310, 2346, 2325,
              2375, 32, 2360, 2381, 2357, 2366, 2360, 2381, 2341, 2381, 2351, 32, 2346, 2381, 2352, 2358, 2381, 2344, 32, 2325, 2379, 32,
              2360, 2350, 2333, 2344, 2375, 32, 2350, 2375, 2306, 32, 2346, 2352, 2375, 2358, 2366, 2344, 2368, 32, 2361, 2379, 32, 2352,
              2361, 2368, 32, 2361, 2376, 2404, 32, 2325, 2371, 2346, 2351, 2366, 32, 2348, 2366, 2342, 32, 2350, 2375, 2306, 32, 2347,
              2367, 2352, 32, 2360, 2375, 32, 2325, 2379, 2358, 2367, 2358, 32, 2325, 2352, 2375, 2306, 32, 2351, 2366, 32, 2340, 2340,
              2381, 2325, 2366, 2354, 32, 2360, 2361, 2366, 2351, 2340, 2366, 32, 2325, 2375, 32, 2354, 2367, 2319, 32, 2325, 2367, 2360,
              2368, 32, 2360, 2381, 2357, 2366, 2360, 2381, 2341, 2381, 2351, 32, 2346, 2375, 2358, 2375, 2357, 2352, 32, 2360, 2375, 32,
              2360, 2354, 2366, 2361, 32, 2354, 2375, 2306, 2404, 32, 55356, 57317>>,
     hinglish |-> <<83, 111, 114, 114, 121, 44, 32, 109, 117, 106, 104, 101, 32, 97, 98, 104, 105, 32, 97, 97, 112, 107,
                    101, 32, 104, 101, 97, 108, 116, 104, 32, 113, 117, 101, 115, 116, 105, 111, 110, 32, 107, 111, 32, 112,
                    114, 111, 99, 101, 115, 115, 32, 107, 97, 114, 110, 101, 32, 109, 101, 105, 110, 32, 112, 114, 111, 98,
                    108, 101, 109, 32, 104, 111, 32, 114, 97, 104, 105, 32, 104, 97, 105, 46, 32, 80, 108, 101, 97, 115,
                    101, 32, 98, 97, 97, 100, 32, 109, 101, 105, 110, 32, 116, 114, 121, 32, 107, 97, 114, 105, 121, 101,
                    32, 121, 97, 32, 105, 109, 109, 101, 100, 105, 97, 116, 101, 32, 104, 101, 108, 112, 32, 107, 101, 32,
                    108, 105, 121, 101, 32, 100, 111, 99, 116, 111, 114, 32, 115, 101, 32, 99, 111, 110, 115, 117, 108, 116,
                    32, 107, 97, 114, 105, 121, 101, 46, 32, 55356, 57317>>]

\* emergencyKeywords of isEmergencyQuery (aiService.js:383-394): 
\*   emergency
\*   urgent
\*   heart attack
\*   stroke
\*   bleeding
\*   accident
\*   unconscious
\*   can't breathe
\*   chest pain
\*   severe pain
\*   suicide
\*   overdose
\*   ???????
\*   ?????
\*   ??? ?? ????
\*   ???
\*   ????????
\*   ?????
\*   ???? ????
\*   ???? ??? ????
\*   emergency hai
\*   urgent hai
\*   heart attack
\*   bleeding ho raha
\*   saans nahi aa rahi
\*   chest pain hai
\*   behosh hai
emergencyKeywords ==
    {<<101, 109, 101, 114, 103, 101, 110, 99, 121>>,
     <<117, 114, 103, 101, 110, 116>>,
     <<104, 101, 97, 114, 116, 32, 97, 116, 116, 97, 99, 107>>,
     <<115, 116, 114, 111, 107, 101>>,
     <<98, 108, 101, 101, 100, 105, 110, 103>>,
     <<97, 99, 99, 105, 100, 101, 110, 116>>,
     <<117, 110, 99, 111, 110, 115, 99, 105, 111, 117, 115>>,
     <<99, 97, 110, 39, 116, 32, 98, 114, 101, 97, 116, 104, 101>>,
     <<99, 104, 101, 115, 116, 32, 112, 97, 105, 110>>,
     <<115, 101, 118, 101, 114, 101, 32, 112, 97, 105, 110>>,
     <<115, 117, 105, 99, 105, 100, 101>>,
     <<111, 118, 101, 114, 100, 111, 115, 101>>,
     <<2310, 2346, 2366, 2340, 2325, 2366, 2354>>,
     <<2340, 2369, 2352, 2306, 2340>>,
     <<2342, 2367, 2354, 32, 2325, 2366, 32, 2342, 2380, 2352, 2366>>,
     <<2326, 2370, 2344>>,
     <<2342, 2369, 2352, 2381, 2328, 2335, 2344, 2366>>,
     <<2348, 2375, 2361, 2379, 2358>>,
     <<2360, 2366, 2306, 2360, 32, 2344, 2361, 2368, 2306>>,
     <<2331, 2366, 2340, 2368, 32, 2350, 2375, 2306, 32, 2342, 2352, 2381, 2342>>,
     <<101, 109, 101, 114, 103, 101, 110, 99, 121, 32, 104, 97, 105>>,
     <<117, 114, 103, 101, 110, 116, 32, 104, 97, 105>>,
     <<98, 108, 101, 101, 100, 105, 110, 103, 32, 104, 111, 32, 114, 97, 104, 97>>,
     <<115, 97, 97, 110, 115, 32, 110, 97, 104, 105, 32, 97, 97, 32, 114, 97, 104, 105>>,
     <<99, 104, 101, 115, 116, 32, 112, 97, 105, 110, 32, 104, 97, 105>>,
     <<98, 101, 104, 111, 115, 104, 32, 104, 97, 105>>}

\* emergencyResponses of getEmergencyResponse (aiService.js:402-406)
\*   en: "? MEDICAL EMERGENCY DETECTED ?//This seems like a ..." (297 code units)
\*   hi: "? ???????? ??????? ?? ??? ??? ?//?? ???????? ?????..." (279 code units)
\*   hinglish: "? MEDICAL EMERGENCY DETECT HUA HAI ?//Ye medical e..." (321 code units)
emergencyResponses ==
    [en |-> <<55357, 57000, 32, 77, 69, 68, 73, 67, 65, 76, 32, 69, 77, 69, 82, 71, 69, 78, 67, 89, 32, 68,
              69, 84, 69, 67, 84, 69, 68, 32, 55357, 57000, 10, 10, 84, 104, 105, 115, 32, 115, 101, 101, 109, 115,
              32, 108, 105, 107, 101, 32, 97, 32, 109, 101, 100, 105, 99, 97, 108, 32, 101, 109, 101, 114, 103, 101,
              110, 99, 121, 46, 32, 80, 108, 101, 97, 115, 101, 58, 10, 10, 49, 46, 32, 67, 97, 108, 108, 32,
              101, 109, 101, 114, 103, 101, 110, 99, 121, 32, 115, 101, 114, 118, 105, 99, 101, 115, 32, 105, 109, 109,
              101, 100, 105, 97, 116, 101, 108, 121, 32, 40, 49, 49, 50, 32, 105, 110, 32, 73, 110, 100, 105, 97,
              41, 10, 50, 46, 32, 83, 101, 101, 107, 32, 105, 109, 109, 101, 100, 105, 97, 116, 101, 32, 109, 101,
              100, 105, 99, 97, 108, 32, 97, 116, 116, 101, 110, 116, 105, 111, 110, 10, 51, 46, 32, 67, 111, 110,
              116, 97, 99, 116, 32, 121, 111, 117, 114, 32, 110, 101, 97, 114, 101, 115, 116, 32, 104, 111, 115, 112,
              105, 116, 97, 108, 10, 52, 46, 32, 73, 102, 32, 112, 111, 115, 115, 105, 98, 108, 101, 44, 32, 104,
              97, 118, 101, 32, 115, 111, 109, 101, 111, 110, 101, 32, 97, 99, 99, 111, 109, 112, 97, 110, 121, 32,
              121, 111, 117, 10, 10, 9888, 65039, 32, 68, 111, 32, 110, 111, 116, 32, 100, 101, 108, 97, 121, 32, 115,
              101, 101, 107, 105, 110, 103, 32, 112, 114, 111, 102, 101, 115, 115, 105, 111, 110, 97, 108, 32, 109, 101,
              100, 105, 99, 97, 108, 32, 104, 101, 108, 112, 33>>,
     hi |-> <<55357, 57000, 32, 2330, 2367, 2325, 2367, 2340, 2381, 2360, 2366, 32, 2310, 2346, 2366, 2340, 2325, 2366, 2354, 32, 2325, 2366,
              32, 2346, 2340, 2366, 32, 2330, 2354, 2366, 32, 55357, 57000, 10, 10, 2351, 2361, 32, 2330, 2367, 2325, 2367, 2340, 2381,
              2360, 2366, 32, 2310, 2346, 2366, 2340, 2325, 2366, 2354, 32, 2354, 2327, 2340, 2366, 32, 2361, 2376, 2404, 32, 2325, 2371,
              2346, 2351, 2366, 58, 10, 10, 49, 46, 32, 2340, 2369, 2352, 2306, 2340, 32, 2310, 2346, 2366, 2340, 2325, 2366, 2354,
              2368, 2344, 32, 2360, 2375, 2357, 2366, 2323, 2306, 32, 2325, 2379, 32, 2325, 2377, 2354, 32, 2325, 2352, 2375, 2306, 32,
              40, 2349, 2366, 2352, 2340, 32, 2350, 2375, 2306, 32, 49, 49, 50, 41, 10, 50, 46, 32, 2340, 2340, 2381, 2325,
              2366, 2354, 32, 2330, 2367, 2325, 2367, 2340, 2381, 2360, 2366, 32, 2360, 2361, 2366, 2351, 2340, 2366, 32, 2354, 2375, 2306,
              10, 51, 46, 32, 2309, 2346, 2344, 2375, 32, 2344, 2367, 2325, 2335, 2340, 2350, 32, 2309, 2360, 2381, 2346, 2340, 2366,
              2354, 32, 2360, 2375, 32, 2360, 2306, 2346, 2352, 2381, 2325, 32, 2325, 2352, 2375, 2306, 10, 52, 46, 32, 2351, 2342,
              2367, 32, 2360, 2306, 2349, 2357, 32, 2361, 2379, 32, 2340, 2379, 32, 2325, 2367, 2360, 2368, 32, 2325, 2379, 32, 2360,
              2366, 2341, 32, 2354, 2375, 32, 2332, 2366, 2319, 2306, 10, 10, 9888, 65039, 32, 2346, 2375, 2358, 2375, 2357, 2352, 32,
              2330, 2367, 2325, 2367, 2340, 2381, 2360, 2366, 32, 2360, 2361, 2366, 2351, 2340, 2366, 32, 2354, 2375, 2344, 2375, 32, 2350,
              2375, 2306, 32, 2342, 2375, 2352, 2368, 32, 2344, 32, 2325, 2352, 2375, 2306, 33>>,
     hinglish |-> <<55357, 57000, 32, 77, 69, 68, 73, 67, 65, 76, 32, 69, 77, 69, 82, 71, 69, 78, 67, 89, 32, 68,
                    69, 84, 69, 67, 84, 32, 72, 85, 65, 32, 72, 65, 73, 32, 55357, 57000, 10, 10, 89, 101, 32, 109,
                    101, 100, 105, 99, 97, 108, 32, 101, 109, 101, 114, 103, 101, 110, 99, 121, 32, 108, 97, 103, 116, 97,
                    32, 104, 97, 105, 46, 32, 80, 108, 101, 97, 115, 101, 58, 10, 10, 49, 46, 32, 69, 109, 101, 114,
                    103, 101, 110, 99, 121, 32, 115, 101, 114, 118, 105, 99, 101, 115, 32, 107, 111, 32, 105, 109, 109, 101,
                    100, 105, 97, 116, 101, 108, 121, 32, 99, 97, 108, 108, 32, 107, 97, 114, 105, 121, 101, 32, 40, 73,
                    110, 100, 105, 97, 32, 109, 101, 105, 110, 32, 49, 49, 50, 41, 10, 50, 46, 32, 84, 117, 114, 97,
                    110, 116, 32, 109, 101, 100, 105, 99, 97, 108, 32, 104, 101, 108, 112, 32, 108, 105, 121, 101, 10, 51,
                    46, 32, 65, 112, 110, 101, 32, 110, 101, 97, 114, 101, 115, 116, 32, 104, 111, 115, 112, 105, 116, 97,
                    108, 32, 115, 101, 32, 99, 111, 110, 116, 97, 99, 116, 32, 107, 97, 114, 105, 121, 101, 10, 52, 46,
                    32, 65, 103, 97, 114, 32, 112, 111, 115, 115, 105, 98, 108, 101, 32, 104, 111, 32, 116, 111, 32, 107,
                    105, 115, 105, 32, 107, 111, 32, 115, 97, 97, 116, 104, 32, 108, 101, 32, 106, 97, 105, 121, 101, 10,
                    10, 9888, 65039, 32, 80, 114, 111, 102, 101, 115, 115, 105, 111, 110, 97, 108, 32, 109, 101, 100, 105, 99,
                    97, 108, 32, 104, 101, 108, 112, 32, 108, 101, 110, 101, 32, 109, 101, 105, 110, 32, 100, 101, 108, 97,
                    121, 32, 109, 97, 116, 32, 107, 97, 114, 105, 121, 101, 33>>]

\* the code units of the class of .replace(/[...]/g, '') in limitResponseLength
\* (aiService.js:343): without the u flag the class holds the surrogate halves of
\* its emoji and the variation selector U+FE0F
EmojiClassUnits ==
    {55356, 55357, 55358, 56458, 56487, 56525, 56772, 57046, 57121, 57199, 57317, 65039}

\* aiService.js:358 ' See doctor if symptoms persist.'
SeeDoctorTail ==
    <<32, 83, 101, 101, 32, 100, 111, 99, 116, 111, 114, 32, 105, 102, 32, 115, 121, 109, 112, 116, 111, 109, 115, 32,
      112, 101, 114, 115, 105, 115, 116, 46>>

\* buildContextualQuery(currentQuery, context)
BuildContextualQuery(currentQuery, context) ==
    IF Len(context) = 0 THEN currentQuery
    ELSE LET first == IF Len(context) > 3 THEN Len(context) - 2 ELSE 1
             recent == SubSeq(context, first, Len(context))
             recentContext ==
                 Join([i \in 1..Len(recent) |->
                          UserPrefix \o recent[i].query \o BotPrefix \o recent[i].response],
                      <<10, 10>>)
         IN  ContextHeader \o recentContext \o CurrentQuestionHeader \o currentQuery

\* every result counts as valid
IsValidResultAny(result) == TRUE

\* result && result.message && result.message.trim().length > 0
IsValidResult(result) ==
    /\ result.kind = "return"
    /\ Truthy(result.message)
    /\ Len(Trim(result.message)) > 0

\* translateResponse without `|| response`
TranslateResponseNoFallback(response, targetLanguage, apiResult) ==
    IF targetLanguage = "en" THEN response ELSE apiResult

\* translateResponse(response, targetLanguage), given the answer of the
\* translation services
TranslateResponse(response, targetLanguage, apiResult) ==
    IF targetLanguage = "en" THEN response
    ELSE IF targetLanguage \in {"hi", "hinglish"}
    THEN LET translated == TranslateText(response, targetLanguage, apiResult)
         IN  IF Truthy(translated) THEN translated ELSE response
    ELSE response

\* whether translateResponse asks the translation service
TranslationAsked(targetLanguage) == targetLanguage \in {"hi", "hinglish"}

\* limitResponseLength without the cut
LimitResponseLengthNever(response, maxLength) == response

\* limitResponseLength(response, maxLength)
LimitResponseLength(response, maxLength) ==
    IF ~Truthy(response) \/ Len(response) <= maxLength THEN response
    ELSE LET cleanResponse ==
                 Trim(ReplaceNewlines(ReplaceNewlineBullet(
                     RemoveUnits(RemoveBoldFrom(RemoveUnits(response, EmojiClassUnits), 1), {42}))))
         IN  IF Len(cleanResponse) > maxLength
             THEN LET cut == Trim(SubstringTo(cleanResponse, maxLength - 50))
                      lastPeriod == LastIndexOf(cut, 46)
                      sentence == IF lastPeriod > 50 THEN SubstringTo(cut, lastPeriod + 1) ELSE cut
                  IN  sentence \o SeeDoctorTail
             ELSE cleanResponse

\* getDefaultErrorResponse(language)
GetDefaultErrorResponse(language) ==
    [message |-> Localized(defaultResponses, language),
     provider |-> "default",
     language |-> language,
     confidence |-> 5]

\* the length knowledge base answers are limited to (aiService.js:315)
KnowledgeBaseMaxLength == 200

\* the knowledge base is searched also when the fallback is disabled
FallbackDisabledIgnored(e) == FALSE

\* process.env.DISABLE_KNOWLEDGE_BASE_FALLBACK === 'true'
FallbackDisabled(e) == e.DISABLE_KNOWLEDGE_BASE_FALLBACK = "true"

\* useKnowledgeBaseFallback(query, language, context): the answer, and the
\* queries searchHealthInfo was called with
UseKnowledgeBaseFallback(e, kb, query, language) ==
    IF FallbackDisabled(e)
    THEN [answer |-> GetDefaultErrorResponse(language), searched |-> <<>>]
    ELSE LET knowledgeResponse == SearchHealthInfo(kb, query, language)
         IN  [answer |-> IF Truthy(knowledgeResponse)
                         THEN [message |-> LimitResponseLength(knowledgeResponse, KnowledgeBaseMaxLength),
                               provider |-> "knowledge_base",
                               language |-> language,
                               confidence |-> 5]
                         ELSE GetDefaultErrorResponse(language),
              searched |-> <<query>>]

\* isEmergencyQuery(query)
IsEmergencyQuery(query) ==
    LET lowerQuery == ToLowerCase(query)
    IN  \E keyword \in emergencyKeywords : Includes(lowerQuery, ToLowerCase(keyword))

\* getEmergencyResponse(language)
GetEmergencyResponse(language) == Localized(emergencyResponses, language)

----------------------------------------------------------------------------
(* The runs of AIService.processHealthQuery *)

NoAnswer == [message |-> Null, provider |-> "", language |-> "", confidence |-> 0]

NoRun ==
    [phase |-> "idle", query |-> <<>>, enhancedQuery |-> <<>>, language |-> "",
     i |-> 0, inflight |-> {}, invoked |-> [p \in ProviderNames |-> 0],
     results |-> [p \in ProviderNames |-> NotCalled], translation |-> Null,
     translateCalls |-> 0,
     searched |-> <<>>, answer |-> NoAnswer]

\* the same provider again
SameProviderIndex(i) == i

\* the provider the for loop of processHealthQuery goes on with
NextProviderIndex(i) == i + 1

\* provider.service.processHealthQuery(...) is called for provider i and awaited
Invoke(r, i) ==
    [r EXCEPT !.i = i,
              !.phase = "provider",
              !.inflight = @ \cup {Providers[i]},
              !.invoked[Providers[i]] = @ + 1]

\* the answer built from the valid result of provider p (aiService.js:239-245)
ProviderAnswer(p, result, language, apiResult) ==
    [message |-> TranslateResponse(result.message, language, apiResult),
     provider |-> p,
     language |-> language,
     confidence |-> IF result.confidence = 0 THEN 8 ELSE result.confidence]

\* the loop taking whatever a provider returns for its answer
CompleteAcceptingBlank(r, result) ==
    LET p == Providers[r.i]
        ended == [r EXCEPT !.inflight = @ \ {p}, !.results[p] = result]
    IN  IF result.kind = "return"
        THEN [ended EXCEPT !.phase = "done",
                           !.answer = ProviderAnswer(p, result, r.language, Null)]
        ELSE IF NextProviderIndex(r.i) <= Len(Providers)
             THEN Invoke(ended, NextProviderIndex(r.i))
             ELSE [ended EXCEPT !.phase = "useKnowledgeBaseFallback"]

\* the loop after the call of provider r.i has thrown or returned: a valid result
\* is translated and returned, else the next provider is called, and after the
\* last one useKnowledgeBaseFallback
Complete(r, result) ==
    LET p == Providers[r.i]
        ended == [r EXCEPT !.inflight = @ \ {p}, !.results[p] = result]
    IN  IF IsValidResult(result)
        THEN IF TranslationAsked(r.language)
             THEN [ended EXCEPT !.phase = "translateText", !.translateCalls = @ + 1]
             ELSE [ended EXCEPT !.phase = "done",
                                !.answer = ProviderAnswer(p, result, r.language, Null)]
        ELSE IF NextProviderIndex(r.i) <= Len(Providers)
             THEN Invoke(ended, NextProviderIndex(r.i))
             ELSE [ended EXCEPT !.phase = "useKnowledgeBaseFallback"]

\* processHealthQuery({query, language, context}) up to its first await
StartRun(query, language, context) ==
    Invoke([NoRun EXCEPT !.query = query,
                         !.enhancedQuery = BuildContextualQuery(query, context),
                         !.language = language], 1)

\* whatsappController.js:97 the greeting sent for an empty message (159 code units)
EmptyMessageGreeting ==
    <<2344, 2350, 2360, 2381, 2340, 2375, 33, 32, 2350, 2376, 2306, 32, 2310, 2346, 2325, 2366, 32, 2360, 2381, 2357, 2366, 2360, 2381, 2341,
      2381, 2351, 32, 2360, 2361, 2366, 2351, 2325, 32, 2361, 2370, 2306, 2404, 32, 2325, 2371, 2346, 2351, 2366, 32, 2309, 2346, 2344, 2366,
      32, 2360, 2381, 2357, 2366, 2360, 2381, 2341, 2381, 2351, 32, 2360, 2306, 2348, 2306, 2343, 2368, 32, 2346, 2381, 2352, 2358, 2381, 2344,
      32, 2346, 2370, 2331, 2375, 2306, 2404, 32, 55356, 57317, 10, 10, 72, 101, 108, 108, 111, 33, 32, 73, 32, 97, 109, 32,
      121, 111, 117, 114, 32, 104, 101, 97, 108, 116, 104, 32, 97, 115, 115, 105, 115, 116, 97, 110, 116, 46, 32, 80,
      108, 101, 97, 115, 101, 32, 97, 115, 107, 32, 121, 111, 117, 114, 32, 104, 101, 97, 108, 116, 104, 45, 114, 101,
      108, 97, 116, 101, 100, 32, 113, 117, 101, 115, 116, 105, 111, 110, 46>>
\* whatsappController.js:86 the message sent when the voice conversion fails (164 code units)
VoiceErrorMessage ==
    <<2350, 2369, 2333, 2375, 32, 2310, 2346, 2325, 2368, 32, 2310, 2357, 2366, 2332, 2364, 32, 2360, 2350, 2333, 2344, 2375, 32, 2350, 2375,
      2306, 32, 2346, 2352, 2375, 2358, 2366, 2344, 2368, 32, 2361, 2369, 2312, 2404, 32, 2325, 2371, 2346, 2351, 2366, 32, 2335, 2375, 2325,
      2381, 2360, 2381, 2335, 32, 2350, 2375, 2306, 32, 2354, 2367, 2326, 2375, 2306, 32, 2351, 2366, 32, 2347, 2367, 2352, 32, 2360, 2375,
      32, 2348, 2379, 2354, 2375, 2306, 2404, 32, 55356, 57252, 10, 10, 73, 32, 104, 97, 100, 32, 116, 114, 111, 117, 98, 108,
      101, 32, 117, 110, 100, 101, 114, 115, 116, 97, 110, 100, 105, 110, 103, 32, 121, 111, 117, 114, 32, 118, 111, 105,
      99, 101, 46, 32, 80, 108, 101, 97, 115, 101, 32, 116, 121, 112, 101, 32, 121, 111, 117, 114, 32, 109, 101, 115,
      115, 97, 103, 101, 32, 111, 114, 32, 115, 112, 101, 97, 107, 32, 97, 103, 97, 105, 110, 46>>

\* the text "2 din se bukhar hai"
TextDinSeBukhar == <<50, 32, 100, 105, 110, 32, 115, 101, 32, 98, 117, 107, 104, 97, 114, 32, 104, 97, 105>>
\* the text "mujhe (bukhar, in Devanagari) hai 2 din se!"
TextMixedBukhar ==
    <<109, 117, 106, 104, 101, 32, 2348, 2369, 2326, 2366, 2352, 32, 104, 97, 105, 32, 50, 32, 100, 105, 110, 32, 115, 101, 33>>
\* the text "BP 140/90"
TextBloodPressure == <<66, 80, 32, 49, 52, 48, 47, 57, 48>>
\* the text "(bukhar, in Devanagari) 102"
TextHindiWithDigits == <<2348, 2369, 2326, 2366, 2352, 32, 49, 48, 50>>
\* the text "Fever 102 F"
TextFever102 == <<70, 101, 118, 101, 114, 32, 49, 48, 50, 32, 70>>
\* the text "Temp 39.5C"
TextTemperature == <<84, 101, 109, 112, 32, 51, 57, 46, 53, 67>>
\* the text "Sugar: 180"
TextSugar == <<83, 117, 103, 97, 114, 58, 32, 49, 56, 48>>
\* the text "malaria"
TextMalaria == <<109, 97, 108, 97, 114, 105, 97>>
\* the text "  " (two spaces)
TextBlank == <<32, 32>>
\* the text "Hello"
TextHello == <<72, 101, 108, 108, 111>>
\* the text "What diet "
TextDietBlank == <<87, 104, 97, 116, 32, 100, 105, 101, 116, 32>>

----------------------------------------------------------------------------
(* Calls of languageService.detectLanguage *)

\* the texts detectLanguage is called with
DetectTexts ==
    {TextIHaveFever, TextHelpMe, TextChestPain, TextEmergencyHai, TextBukharHaiKya, TextHindiBukhar,
     TextWhatIsYourName, TextDinSeBukhar, TextMixedBukhar, TextHindiWithDigits, TextBloodPressure,
     TextFever102, TextSugar, TextTemperature, TextHello, TextDietBlank, <<>>}

\* process.env.BHASHINI_API_KEY and process.env.AI4BHARAT_API_KEY, set or not
LanguageKeys == [bhashiniApiKey : BOOLEAN, ai4bharatApiKey : BOOLEAN]

\* no call of detectLanguage made yet
NoDetection(keys) == [keys |-> keys, pc |-> "idle", text |-> <<>>, service |-> "none", language |-> ""]

\* detectViaAPI(text): the service it asks
DetectionService(keys) ==
    IF keys.bhashiniApiKey THEN "bhashini"
    ELSE IF keys.ai4bharatApiKey THEN "ai4bharat"
    ELSE "none"

\* what detectViaAPI returns: null without a key; with one, null when the
\* request fails and else the language the service names
DetectViaAPIOutcomes(keys) ==
    IF DetectionService(keys) = "none" THEN {"none"} ELSE ApiLanguages

\* detectLanguage(text) is called: it returns at once on a Devanagari, an
\* English or a Hinglish text, and else awaits detectViaAPI
DetectLanguageCall ==
    /\ detection.pc \in {"idle", "returned"}
    /\ \E text \in DetectTexts :
         detection' = IF DetectionAsksApi(text)
                      THEN [detection EXCEPT !.pc = "detectViaAPI", !.text = text,
                                             !.service = DetectionService(detection.keys),
                                             !.language = ""]
                      ELSE [detection EXCEPT !.pc = "returned", !.text = text, !.service = "none",
                                             !.language = DetectLanguage(text, "none")]
    /\ UNCHANGED <<limiterVars, pipelineVars, formatting, search, conversations>>

\* detectViaAPI returns, and detectLanguage with it
DetectViaAPIReturn ==
    /\ detection.pc = "detectViaAPI"
    /\ \E viaApi \in DetectViaAPIOutcomes(detection.keys) :
         detection' = [detection EXCEPT !.pc = "returned",
                                        !.language = DetectLanguage(detection.text, viaApi)]
    /\ UNCHANGED <<limiterVars, pipelineVars, formatting, search, conversations>>

DetectNext ==
    \/ DetectLanguageCall
    \/ DetectViaAPIReturn

----------------------------------------------------------------------------
(* Calls of knowledgeBaseService.formatDiseaseInfo and searchHealthInfo *)

\* an entry with every field:
\*   {name: 'Typhoid', definition: 'A fever spread by unsafe water.', types: ['Enteric'],
\*    symptoms: ['Long fever', 'Weakness'], causes: ['Unsafe water'], management: ['See a doctor.'],
\*    prevention: ['Boil water.'], emergency_signs: ['Bleeding'], home_remedies: ['Rest']}
TyphoidInfo ==
    [name |-> <<84, 121, 112, 104, 111, 105, 100>>,
     definition |-> <<65, 32, 102, 101, 118, 101, 114, 32, 115, 112, 114, 101, 97, 100, 32, 98, 121, 32, 117, 110, 115, 97, 102, 101, 32, 119, 97, 116, 101, 114, 46>>,
     types |-> << <<69, 110, 116, 101, 114, 105, 99>> >>,
     symptoms |-> << <<76, 111, 110, 103, 32, 102, 101, 118, 101, 114>>, <<87, 101, 97, 107, 110, 101, 115, 115>> >>,
     causes |-> << <<85, 110, 115, 97, 102, 101, 32, 119, 97, 116, 101, 114>> >>,
     management |-> << <<83, 101, 101, 32, 97, 32, 100, 111, 99, 116, 111, 114, 46>> >>,
     prevention |-> << <<66, 111, 105, 108, 32, 119, 97, 116, 101, 114, 46>> >>,
     emergency_signs |-> << <<66, 108, 101, 101, 100, 105, 110, 103>> >>,
     home_remedies |-> << <<82, 101, 115, 116>> >>]

\* the fields formatDiseaseInfo reads, in the order of its sections
DiseaseFields ==
    <<"name", "definition", "types", "symptoms", "causes", "management", "prevention",
      "emergency_signs", "home_remedies">>
\* the fields formatDiseaseInfo tests before it reads them
GuardedFields == {"types", "causes", "emergency_signs", "home_remedies"}

\* the entry without the fields of the set lacking
Without(diseaseInfo, lacking) == [field \in (DOMAIN diseaseInfo) \ lacking |-> diseaseInfo[field]]

\* the entries formatDiseaseInfo is called with: the full entry without any set
\* of the tested fields, and without one of the other fields
DiseaseInfos ==
    {Without(TyphoidInfo, lacking) : lacking \in SUBSET GuardedFields}
    \cup {Without(TyphoidInfo, {field}) : field \in (DOMAIN TyphoidInfo) \ GuardedFields}

\* the languages of the calls
FormatLanguages == {"en", "hi"}
\* the queries of the searches
SearchQueries == {TextMalaria}

\* no call of formatDiseaseInfo
NoDiseaseInfo == [absent |-> TRUE]
NoFormatCall ==
    [diseaseInfo |-> NoDiseaseInfo, language |-> "", text |-> Null, diseaseInfoAfter |-> NoDiseaseInfo]
\* the last call, one call remembered from before it, whether other calls came
\* between the two, and the result of the last search
NoFormatting == [last |-> NoFormatCall, earlier |-> NoFormatCall, between |-> FALSE, searched |-> Null]

\* formatDiseaseInfo(diseaseInfo, language) is called: it builds its text from
\* a new array and assigns to nothing else
FormatDiseaseInfoCall ==
    /\ \E diseaseInfo \in DiseaseInfos, language \in FormatLanguages, keep \in BOOLEAN :
         formatting' = [formatting EXCEPT
                           !.earlier = IF keep /\ @ # NoFormatCall THEN @ ELSE formatting.last,
                           !.between = keep /\ formatting.earlier # NoFormatCall,
                           !.last = [diseaseInfo |-> diseaseInfo, language |-> language,
                                     text |-> FormatDiseaseInfo(diseaseInfo, language),
                                     diseaseInfoAfter |-> diseaseInfo]]
    /\ UNCHANGED <<limiterVars, pipelineVars, detection, search, conversations>>

\* searchHealthInfo(query, language) is called between two calls
SearchHealthInfoCall ==
    /\ \E query \in SearchQueries, language \in {"en"} :
         formatting' = [formatting EXCEPT !.searched = SearchHealthInfo(knowledgeBase, query, language)]
    /\ UNCHANGED <<limiterVars, pipelineVars, detection, search, conversations>>

FormatNext ==
    \/ FormatDiseaseInfoCall
    \/ SearchHealthInfoCall

\* the text "malaria fever"
TextMalariaFever == <<109, 97, 108, 97, 114, 105, 97, 32, 102, 101, 118, 101, 114>>
\* the text "Diabetes diet"
TextDiabetesDiet == <<68, 105, 97, 98, 101, 116, 101, 115, 32, 100, 105, 101, 116>>
\* the text "exercise help"
TextExerciseHelp == <<101, 120, 101, 114, 99, 105, 115, 101, 32, 104, 101, 108, 112>>
\* the text "weakness"
TextWeakness == <<119, 101, 97, 107, 110, 101, 115, 115>>
\* the text "sar dard hai"
TextSarDard == <<115, 97, 114, 32, 100, 97, 114, 100, 32, 104, 97, 105>>
\* the text "ambulance"
TextAmbulance == <<97, 109, 98, 117, 108, 97, 110, 99, 101>>
\* the text "stress"
TextStress == <<115, 116, 114, 101, 115, 115>>
\* the text "xyz"
TextXyz == <<120, 121, 122>>

\* the queries and languages searchHealthInfo is called with
SearchTexts ==
    {TextMalaria, TextMalariaFever, TextDiabetesDiet, TextExerciseHelp, TextWeakness, TextSarDard,
     TextAmbulance, TextStress, TextXyz, TextIHaveFever, TextHelpMe, TextChestPain, TextHello,
     TextDietBlank, TextBukharHaiKya}
SearchLanguages == {"en", "hi", "hinglish", "ta"}

\* no call of searchHealthInfo made yet
NoSearch == [query |-> <<>>, language |-> "", text |-> Null]

\* searchHealthInfo(query, language) is called and returns
SearchCall ==
    /\ \E query \in SearchTexts, language \in SearchLanguages :
         search' = [query |-> query, language |-> language,
                    text |-> SearchHealthInfo(knowledgeBase, query, language)]
    /\ UNCHANGED <<limiterVars, pipelineVars, detection, formatting, conversations>>

SearchNext == SearchCall

----------------------------------------------------------------------------
(* Overlapping runs of processMessage writing to the table `conversations` *)

ConversationRuns == {1, 2}
ConversationPhones == {"+911", "+912"}
ConversationQueries == {TextIHaveFever, TextHelpMe}
\* the messages processHealthQuery returns to the runs
ConversationAnswers == {GeminiText, OpenAIText}

NoConversationRun ==
    [pc |-> "idle", phoneNumber |-> "", userQuery |-> <<>>, message |-> Null, found |-> 0]

\* an empty table, no run started
NoConversations ==
    [rows |-> <<>>,
     runs |-> [r \in ConversationRuns |-> NoConversationRun],
     overlapped |-> FALSE]

\* .eq('user_phone', phoneNumber).eq('query', query): the positions of the rows
Matching(rows, phoneNumber, query) ==
    {i \in 1..Len(rows) : rows[i].user_phone = phoneNumber /\ rows[i].query = query}

\* .order('query_timestamp', { ascending: false }).limit(1): the rows that can
\* come first, any one of those with the latest timestamp
MostRecent(rows, among) ==
    {i \in among : \A j \in among : rows[j].query_timestamp <= rows[i].query_timestamp}

\* the row the run inserted itself
OwnRow(rows, r) == {i \in 1..Len(rows) : rows[i].createdBy = r}

\* a message arrives and processMessage starts on it
ProcessMessageBegin(r) ==
    /\ conversations.runs[r].pc = "idle"
    /\ \E phoneNumber \in ConversationPhones, userQuery \in ConversationQueries :
         conversations' =
             [conversations EXCEPT
                 !.runs[r] = [@ EXCEPT !.pc = "storeUserQuery",
                                       !.phoneNumber = phoneNumber,
                                       !.userQuery = userQuery],
                 !.overlapped = @ \/ \E other \in ConversationRuns \ {r} :
                                        conversations.runs[other].pc \notin {"idle", "done"}]
    /\ UNCHANGED <<limiterVars, pipelineVars, detection, formatting, search>>

\* storeUserQuery: the insert into conversations succeeds or fails
StoreUserQueryInsert(r) ==
    /\ conversations.runs[r].pc = "storeUserQuery"
    /\ \E ok \in BOOLEAN :
         LET this == conversations.runs[r]
             row == [id |-> Len(conversations.rows) + 1,
                     user_phone |-> this.phoneNumber,
                     query |-> this.userQuery,
                     query_timestamp |-> now,
                     ai_response |-> Null,
                     createdBy |-> r,
                     answeredBy |-> 0]
         IN  conversations' =
                 [conversations EXCEPT
                     !.rows = IF ok THEN Append(@, row) ELSE @,
                     !.runs[r].pc = "processHealthQuery"]
    /\ UNCHANGED <<limiterVars, pipelineVars, detection, formatting, search>>

\* aiService.processHealthQuery returns the response of the run
ConversationAnswered(r) ==
    /\ conversations.runs[r].pc = "processHealthQuery"
    /\ \E message \in ConversationAnswers :
         conversations' = [conversations EXCEPT !.runs[r].pc = "storeAiResponse.select",
                                                !.runs[r].message = message]
    /\ UNCHANGED <<limiterVars, pipelineVars, detection, formatting, search>>

\* storeAiResponse: the select of the most recent conversation of the user and
\* the query returns; with none found the method returns null
StoreAiResponseSelect(r) ==
    /\ conversations.runs[r].pc = "storeAiResponse.select"
    /\ LET this == conversations.runs[r]
           among == Matching(conversations.rows, this.phoneNumber, this.userQuery)
       IN  IF among = {}
           THEN conversations' = [conversations EXCEPT !.runs[r].pc = "done"]
           ELSE \E i \in MostRecent(conversations.rows, among) :
                    conversations' = [conversations EXCEPT !.runs[r].pc = "storeAiResponse.update",
                                                           !.runs[r].found = i]
    /\ UNCHANGED <<limiterVars, pipelineVars, detection, formatting, search>>

\* storeAiResponse: the update of the row found
StoreAiResponseUpdate(r) ==
    /\ conversations.runs[r].pc = "storeAiResponse.update"
    /\ LET this == conversations.runs[r] IN
       conversations' = [conversations EXCEPT
                            !.rows[this.found] = [@ EXCEPT !.ai_response = this.message,
                                                           !.answeredBy = r],
                            !.runs[r].pc = "done"]
    /\ UNCHANGED <<limiterVars, pipelineVars, detection, formatting, search>>

ConversationNext ==
    \/ Tick
    \/ \E r \in ConversationRuns : ProcessMessageBegin(r)
    \/ \E r \in ConversationRuns : StoreUserQueryInsert(r)
    \/ \E r \in ConversationRuns : ConversationAnswered(r)
    \/ \E r \in ConversationRuns : StoreAiResponseSelect(r)
    \/ \E r \in ConversationRuns : StoreAiResponseUpdate(r)

\* no call made on the services
ServicesAtRest ==
    /\ detection = NoDetection([bhashiniApiKey |-> FALSE, ai4bharatApiKey |-> FALSE])
    /\ formatting = NoFormatting
    /\ search = NoSearch
    /\ conversations = NoConversations

----------------------------------------------------------------------------
(* The entry points: the webhook, the manual query endpoint, processMessage *)

\* how many requests a behaviour takes
MaxRequests == 2

\* max of the limiter of the app when RATE_LIMIT_MAX_REQUESTS is not set
IpMaxDefault == 100

\* the settings of process.env that the model distinguishes
Environments ==
    [DISABLE_KNOWLEDGE_BASE_FALLBACK : {"unset", "true"},
     RATE_LIMIT_MAX_REQUESTS : {"unset", "1"},
     configured : {{}, ProviderNames}]

\* parseInt(process.env.RATE_LIMIT_MAX_REQUESTS) || 100
IpMax(e) == IF e.RATE_LIMIT_MAX_REQUESTS = "1" THEN 1 ELSE IpMaxDefault

\* the texts of the messages and queries
WebhookTexts == {TextIHaveFever, TextChestPain, TextWhatIsYourName, TextDinSeBukhar, TextHindiBukhar, <<>>}
ManualQueries == {TextIHaveFever, TextWhatIsYourName, TextHelpMe, TextHello, TextDietBlank, TextBlank, <<>>}
ManualLanguages == {"auto", "en", "hi", "hinglish"}
\* From of a webhook request: a number, or nothing
WebhookFroms == {"+911", ""}
\* the history getUserContext returns: nothing, or one turn
Contexts == {<<>>, <<[query |-> TextIHaveFever, response |-> OpenAIText]>>}

\* what app.use('/webhook', limiter), app.use('/webhook', whatsappRoutes) and
\* router.post('/', [validators], whatsappController.handleIncomingMessage) put
\* between a POST /webhook and its answer, in order
WebhookChain == <<"limiter", "validators", "handleIncomingMessage">>

\* this inside handleIncomingMessage: the router is given the method itself, not
\* bound to the controller, and calls it as a function
WebhookHandlerThis == "undefined"

NoPipeline ==
    [entry |-> "none", pc |-> "idle", from |-> "", body |-> <<>>, media |-> "none",
     transcript |-> <<>>, status |-> 0, error |-> "", admission |-> "not_run",
     userQuery |-> <<>>, isVoiceMessage |-> FALSE, language |-> "", context |-> <<>>,
     calls |-> <<>>, outbox |-> <<>>, sent |-> <<>>, aiResponse |-> NoAnswer,
     stored |-> {}]

\* a call is made and awaited
Await(p, call) == [p EXCEPT !.pc = call, !.calls = Append(@, call)]

\* processMessage from the check for an empty query on, up to the next await
AfterQueryKnown(p) ==
    IF ~Truthy(p.userQuery) \/ Len(Trim(p.userQuery)) = 0
    THEN Await([p EXCEPT !.outbox = EmptyMessageGreeting], "sendWhatsAppMessage")
    ELSE Await(p, "detectLanguage")

\* processMessage({phoneNumber, messageBody, mediaUrl, mediaType}) up to its first await
BeginProcessMessage(p) ==
    IF p.media = "audio"
    THEN Await([p EXCEPT !.userQuery = p.body, !.isVoiceMessage = TRUE], "convertSpeechToText")
    ELSE AfterQueryKnown([p EXCEPT !.userQuery = p.body])

\* handleIncomingMessage with the call of this.processMessage awaited before the
\* acknowledgement
HandleIncomingMessageAwaitsPipeline(p, errors, this) ==
    IF errors THEN [p EXCEPT !.status = 400, !.pc = "done"]
    ELSE IF this = "controller"
         THEN BeginProcessMessage(p)
         ELSE [p EXCEPT !.status = 500, !.pc = "failed", !.error = "TypeError"]

\* handleIncomingMessage(req, res): 400 for an invalid request, else the
\* acknowledgement and the call of this.processMessage
HandleIncomingMessage(p, errors, this) ==
    IF errors THEN [p EXCEPT !.status = 400, !.pc = "done"]
    ELSE LET acked == [p EXCEPT !.status = 200]
         IN  IF this = "controller"
             THEN BeginProcessMessage(acked)
             ELSE [acked EXCEPT !.pc = "failed", !.error = "TypeError"]

\* the middleware of the chain from position k on, for the request of p:
\* st is [hits, store, errors, pipeline]
RECURSIVE RunChain(_, _, _, _)
RunChain(chain, k, st, max) ==
    IF k > Len(chain) THEN st
    ELSE IF chain[k] = "limiter"
    THEN LET counted == [st EXCEPT !.hits = @ + 1]
         IN  IF counted.hits > max
             THEN [counted EXCEPT !.pipeline.status = 429, !.pipeline.pc = "done"]
             ELSE RunChain(chain, k + 1, counted, max)
    ELSE IF chain[k] = "dynamicRateLimiter"
    THEN LET d == DynamicRateLimiter(st.store, st.pipeline.from, st.pipeline.body, now)
         IN  IF d.res.next
             THEN RunChain(chain, k + 1,
                           [st EXCEPT !.store = d.store, !.pipeline.admission = "passed"], max)
             ELSE [st EXCEPT !.store = d.store,
                             !.pipeline.admission = "denied",
                             !.pipeline.status = IF d.res.handled = "throw" THEN 500 ELSE 429,
                             !.pipeline.pc = "done"]
    ELSE IF chain[k] = "validators"
    THEN RunChain(chain, k + 1, [st EXCEPT !.errors = (st.pipeline.from = "")], max)
    ELSE [st EXCEPT !.pipeline = HandleIncomingMessage(st.pipeline, st.errors, WebhookHandlerThis)]

Idle == pipeline.pc \in {"idle", "done", "failed"}

Init ==
    /\ DynStart
    /\ env \in Environments
    /\ knowledgeBase \in KnowledgeBases
    /\ ipHits = 0
    /\ handled = 0
    /\ pipeline = NoPipeline
    /\ run = NoRun
    /\ ServicesAtRest

\* POST /webhook
WebhookRequest ==
    /\ Idle
    /\ handled < MaxRequests
    /\ \E from \in WebhookFroms, text \in WebhookTexts, media \in {"none", "audio"} :
         LET request == [NoPipeline EXCEPT !.entry = "webhook",
                                           !.from = from,
                                           !.body = IF media = "audio" THEN <<>> ELSE text,
                                           !.transcript = IF media = "audio" THEN text ELSE <<>>,
                                           !.media = media]
             after == RunChain(WebhookChain, 1,
                               [hits |-> ipHits, store |-> store, errors |-> FALSE,
                                pipeline |-> request],
                               IpMax(env))
         IN  /\ pipeline' = after.pipeline
             /\ ipHits' = after.hits
             /\ store' = after.store
    /\ handled' = handled + 1
    /\ run' = NoRun
    /\ UNCHANGED <<now, ticks, cfg, rateLimitStore, lastCheck, admitted, denials, unswept, httpRes, seen,
                   env, knowledgeBase, serviceVars>>

\* whatsappController.processMessage(...) called on the controller
ProcessMessageCall ==
    /\ Idle
    /\ handled < MaxRequests
    /\ \E text \in WebhookTexts, media \in {"none", "audio"} :
         pipeline' = BeginProcessMessage(
                        [NoPipeline EXCEPT !.entry = "processMessage",
                                           !.from = "+911",
                                           !.body = IF media = "audio" THEN <<>> ELSE text,
                                           !.transcript = IF media = "audio" THEN text ELSE <<>>,
                                           !.media = media])
    /\ handled' = handled + 1
    /\ run' = NoRun
    /\ UNCHANGED <<limiterVars, serviceVars, env, knowledgeBase, ipHits>>

\* POST /api/health/query
ManualQueryRequest ==
    /\ Idle
    /\ handled < MaxRequests
    /\ \E query \in ManualQueries, language \in ManualLanguages :
         LET request == [NoPipeline EXCEPT !.entry = "manual",
                                           !.from = "test_user",
                                           !.body = query,
                                           !.userQuery = query,
                                           !.language = language]
         IN  pipeline' = IF ~Truthy(query)
                         THEN [request EXCEPT !.status = 400, !.pc = "done"]
                         ELSE Await(request, "getUserContext")
    /\ handled' = handled + 1
    /\ run' = NoRun
    /\ UNCHANGED <<limiterVars, serviceVars, env, knowledgeBase, ipHits>>

\* voiceService.convertSpeechToText throws or returns the transcript
ConvertSpeechToTextReturn ==
    /\ pipeline.pc = "convertSpeechToText"
    /\ \/ pipeline' = Await([pipeline EXCEPT !.outbox = VoiceErrorMessage], "sendWhatsAppMessage")
       \/ pipeline' = AfterQueryKnown([pipeline EXCEPT !.userQuery = pipeline.transcript])
    /\ UNCHANGED <<limiterVars, serviceVars, env, knowledgeBase, ipHits, handled, run>>

\* languageService.detectLanguage returns
DetectLanguageReturn ==
    /\ pipeline.pc = "detectLanguage"
    /\ \E viaApi \in IF DetectionAsksApi(pipeline.userQuery) THEN ApiLanguages ELSE {"none"} :
         pipeline' = Await([pipeline EXCEPT !.language = DetectLanguage(pipeline.userQuery, viaApi)],
                           "getUserContext")
    /\ UNCHANGED <<limiterVars, serviceVars, env, knowledgeBase, ipHits, handled, run>>

\* supabaseService.getUserContext returns the history or, on a failure, []
GetUserContextReturn ==
    /\ pipeline.pc = "getUserContext"
    /\ \E context \in Contexts :
         IF pipeline.entry = "manual"
         THEN /\ pipeline' = Await([pipeline EXCEPT !.context = context], "processHealthQuery")
              /\ run' = StartRun(pipeline.userQuery, pipeline.language, context)
         ELSE /\ pipeline' = Await([pipeline EXCEPT !.context = context], "storeUserQuery")
              /\ run' = run
    /\ UNCHANGED <<limiterVars, serviceVars, env, knowledgeBase, ipHits, handled>>

\* a write to the store: the row is inserted, or the store is not configured
\* or fails and the write returns null
StoreWrite(p, row, ok) == IF ok THEN [p EXCEPT !.stored = @ \cup {row}] ELSE p

\* storeUserQuery as if a failed write were thrown to its caller, which gives up
StoreUserQueryReturnGivingUp ==
    /\ pipeline.pc = "storeUserQuery"
    /\ \E ok \in BOOLEAN :
         /\ pipeline' = IF ok THEN Await(StoreWrite(pipeline, "query", ok), "processHealthQuery")
                         ELSE [pipeline EXCEPT !.pc = "done"]
         /\ run' = IF ok THEN StartRun(pipeline.userQuery, pipeline.language, pipeline.context)
                    ELSE run
    /\ UNCHANGED <<limiterVars, serviceVars, env, knowledgeBase, ipHits, handled>>

\* supabaseService.storeUserQuery returns, stored or not
StoreUserQueryReturn ==
    /\ pipeline.pc = "storeUserQuery"
    /\ \E ok \in BOOLEAN :
         pipeline' = Await(StoreWrite(pipeline, "query", ok), "processHealthQuery")
    /\ run' = StartRun(pipeline.userQuery, pipeline.language, pipeline.context)
    /\ UNCHANGED <<limiterVars, serviceVars, env, knowledgeBase, ipHits, handled>>

\* what the service of a provider can do with the call of the run
ProviderOutcomes(p) ==
    IF p = "gemini" THEN GeminiOutcomes(p \in env.configured, run.enhancedQuery, run.language)
    ELSE IF p = "huggingface" THEN HuggingFaceConversationalOutcomes(p \in env.configured, run.language)
    ELSE OpenAIOutcomes(p \in env.configured)

\* the call of the provider throws or returns
ProviderReturn ==
    /\ run.phase = "provider"
    /\ \E result \in ProviderOutcomes(Providers[run.i]) :
         run' = IF result.kind = "textGeneration"
                THEN [run EXCEPT !.phase = "textGeneration"]
                ELSE IF result.kind = "pending"
                THEN [run EXCEPT !.phase = "pending"]
                ELSE Complete(run, result)
    /\ UNCHANGED <<limiterVars, serviceVars, env, knowledgeBase, ipHits, handled, pipeline>>

\* the text generation model of the Hugging Face service answers
HuggingFaceTextGenerationReturn ==
    /\ run.phase = "textGeneration"
    /\ \E result \in HuggingFaceTextOutcomes(run.language) :
         run' = Complete(run, result)
    /\ UNCHANGED <<limiterVars, serviceVars, env, knowledgeBase, ipHits, handled, pipeline>>

\* languageService.translateText returns
TranslateTextReturn ==
    /\ run.phase = "translateText"
    /\ \E apiResult \in {Null, TranslatedText} :
         run' = [run EXCEPT !.phase = "done",
                            !.translation = apiResult,
                            !.answer = ProviderAnswer(Providers[run.i], run.results[Providers[run.i]],
                                                      run.language, apiResult)]
    /\ UNCHANGED <<limiterVars, serviceVars, env, knowledgeBase, ipHits, handled, pipeline>>

\* the fallback called with the prompt built from the history
FallbackQueryEnhanced(r) == r.enhancedQuery

\* the query useKnowledgeBaseFallback is called with: the query of the caller
FallbackQuery(r) == r.query

\* useKnowledgeBaseFallback(query, language, context)
KnowledgeBaseFallback ==
    /\ run.phase = "useKnowledgeBaseFallback"
    /\ LET fallback == UseKnowledgeBaseFallback(env, knowledgeBase, FallbackQuery(run), run.language)
       IN  run' = [run EXCEPT !.phase = "done",
                              !.searched = @ \o fallback.searched,
                              !.answer = fallback.answer]
    /\ UNCHANGED <<limiterVars, serviceVars, env, knowledgeBase, ipHits, handled, pipeline>>

\* processHealthQuery returns to its caller: the manual endpoint answers, and
\* processMessage stores the response
ProcessHealthQueryReturn ==
    /\ pipeline.pc = "processHealthQuery"
    /\ run.phase = "done"
    /\ run' = [run EXCEPT !.phase = "returned"]
    /\ pipeline' = IF pipeline.entry = "manual"
                   THEN [pipeline EXCEPT !.aiResponse = run.answer, !.status = 200, !.pc = "done"]
                   ELSE Await([pipeline EXCEPT !.aiResponse = run.answer], "storeAiResponse")
    /\ UNCHANGED <<limiterVars, serviceVars, env, knowledgeBase, ipHits, handled>>

\* supabaseService.storeAiResponse returns, stored or not
StoreAiResponseReturn ==
    /\ pipeline.pc = "storeAiResponse"
    /\ \E ok \in BOOLEAN :
         LET p == StoreWrite(pipeline, "response", ok)
         IN  pipeline' = IF p.isVoiceMessage /\ Truthy(p.aiResponse.message)
                         THEN Await(p, "convertTextToSpeech")
                         ELSE Await([p EXCEPT !.outbox = p.aiResponse.message],
                                    "sendWhatsAppMessage")
    /\ UNCHANGED <<limiterVars, serviceVars, env, knowledgeBase, ipHits, handled, run>>

\* voiceService.convertTextToSpeech returns the audio or throws
ConvertTextToSpeechReturn ==
    /\ pipeline.pc = "convertTextToSpeech"
    /\ \/ pipeline' = Await(pipeline, "sendWhatsAppVoiceMessage")
       \/ pipeline' = Await([pipeline EXCEPT !.outbox = pipeline.aiResponse.message],
                            "sendWhatsAppMessage")
    /\ UNCHANGED <<limiterVars, serviceVars, env, knowledgeBase, ipHits, handled, run>>

\* messageService.sendWhatsAppVoiceMessage delivers or throws
SendWhatsAppVoiceMessageReturn ==
    /\ pipeline.pc = "sendWhatsAppVoiceMessage"
    /\ \/ pipeline' = [pipeline EXCEPT !.pc = "done",
                                       !.sent = Append(@, [kind |-> "voice",
                                                           message |-> pipeline.aiResponse.message])]
       \/ pipeline' = Await([pipeline EXCEPT !.outbox = pipeline.aiResponse.message],
                            "sendWhatsAppMessage")
    /\ UNCHANGED <<limiterVars, serviceVars, env, knowledgeBase, ipHits, handled, run>>

\* messageService.sendWhatsAppMessage returns: delivered by one of its
\* providers, or by none
SendWhatsAppMessageReturn ==
    /\ pipeline.pc = "sendWhatsAppMessage"
    /\ \/ pipeline' = [pipeline EXCEPT !.pc = "done",
                                       !.sent = Append(@, [kind |-> "text",
                                                           message |-> pipeline.outbox])]
       \/ pipeline' = [pipeline EXCEPT !.pc = "done"]
    /\ UNCHANGED <<limiterVars, serviceVars, env, knowledgeBase, ipHits, handled, run>>

Next ==
    \/ WebhookRequest
    \/ ProcessMessageCall
    \/ ManualQueryRequest
    \/ ConvertSpeechToTextReturn
    \/ DetectLanguageReturn
    \/ GetUserContextReturn
    \/ StoreUserQueryReturn
    \/ ProviderReturn
    \/ HuggingFaceTextGenerationReturn
    \/ TranslateTextReturn
    \/ KnowledgeBaseFallback
    \/ ProcessHealthQueryReturn
    \/ StoreAiResponseReturn
    \/ ConvertTextToSpeechReturn
    \/ SendWhatsAppVoiceMessageReturn
    \/ SendWhatsAppMessageReturn

Spec == Init /\ [][Next]_vars

\* the messages handed to processMessage only
ProcessMessageNext ==
    \/ ProcessMessageCall
    \/ ConvertSpeechToTextReturn
    \/ DetectLanguageReturn
    \/ GetUserContextReturn
    \/ StoreUserQueryReturn
    \/ ProviderReturn
    \/ HuggingFaceTextGenerationReturn
    \/ TranslateTextReturn
    \/ KnowledgeBaseFallback
    \/ ProcessHealthQueryReturn
    \/ StoreAiResponseReturn
    \/ ConvertTextToSpeechReturn
    \/ SendWhatsAppVoiceMessageReturn
    \/ SendWhatsAppMessageReturn

ProcessMessageSpec == Init /\ [][ProcessMessageNext]_vars

\* no request has been taken
PipelineAtRest ==
    /\ env = [DISABLE_KNOWLEDGE_BASE_FALLBACK |-> "unset",
              RATE_LIMIT_MAX_REQUESTS |-> "unset",
              configured |-> {}]
    /\ knowledgeBase = EmptyKnowledgeBase
    /\ ipHits = 0
    /\ handled = 0
    /\ pipeline = NoPipeline
    /\ run = NoRun

\* checkLimit and checkRateLimit called directly
LimiterInit == LimiterStart /\ PipelineAtRest /\ ServicesAtRest
SweepSpec == LimiterInit /\ [][SweepNext]_vars
LimiterSpec == LimiterInit /\ [][LimiterNext]_vars

\* dynamicRateLimiter called with requests
DynInit == DynStart /\ PipelineAtRest /\ ServicesAtRest
ConversationSpec == DynInit /\ [][ConversationNext]_vars
DynSpec == DynInit /\ [][DynNext]_vars

\* detectLanguage called directly, under every setting of the two API keys
DetectInit ==
    /\ DynStart
    /\ PipelineAtRest
    /\ \E keys \in LanguageKeys : detection = NoDetection(keys)
    /\ formatting = NoFormatting
    /\ search = NoSearch
    /\ conversations = NoConversations
DetectSpec == DetectInit /\ [][DetectNext]_vars

\* searchHealthInfo called directly, on a corpus that failed to load and on a
\* loaded one
SearchInit ==
    /\ DynStart
    /\ env = [DISABLE_KNOWLEDGE_BASE_FALLBACK |-> "unset",
              RATE_LIMIT_MAX_REQUESTS |-> "unset",
              configured |-> {}]
    /\ knowledgeBase \in KnowledgeBases
    /\ ipHits = 0
    /\ handled = 0
    /\ pipeline = NoPipeline
    /\ run = NoRun
    /\ ServicesAtRest
SearchSpec == SearchInit /\ [][SearchNext]_vars

\* formatDiseaseInfo and searchHealthInfo called directly on a loaded corpus
FormatInit ==
    /\ DynStart
    /\ env = [DISABLE_KNOWLEDGE_BASE_FALLBACK |-> "unset",
              RATE_LIMIT_MAX_REQUESTS |-> "unset",
              configured |-> {}]
    /\ knowledgeBase = TwoDiseasesKnowledgeBase
    /\ ipHits = 0
    /\ handled = 0
    /\ pipeline = NoPipeline
    /\ run = NoRun
    /\ detection = NoDetection([bhashiniApiKey |-> FALSE, ai4bharatApiKey |-> FALSE])
    /\ formatting = NoFormatting
    /\ search = NoSearch
    /\ conversations = NoConversations
FormatSpec == FormatInit /\ [][FormatNext]_vars

----------------------------------------------------------------------------
(* Properties of the admission controller *)

\* per key, no more allowed calls in the trailing window than the ceiling
AtMostMaxInWindow == \A k \in AdmittedKeys : Len(admitted[k]) <= KeyMaxRequests(k)

\* a denial reports remaining = 0
DeniedReportsZero == (lastCheck.op # "none" /\ ~lastCheck.allowed) => lastCheck.remaining = 0

\* C1 as stated: for every fixed windowMs and maxRequests, at most maxRequests calls
\* of a key are allowed within any trailing interval of windowMs, also with calls
\* for other keys and sweeps in between, and a denial reports remaining = 0.
C1_AnyWindow == AtMostMaxInWindow /\ DeniedReportsZero

\* C1, amended: the same for every windowMs of at most one hour, the horizon of the
\* sweep; a denial reports remaining = 0 for every windowMs.
C1_SlidingWindow == (cfg.windowMs <= OneHour => AtMostMaxInWindow) /\ DeniedReportsZero

\* a call is denied with the window full, after the clock has moved and with
\* another key in the store
C1_Witness ==
    /\ lastCheck.op = "checkLimit"
    /\ ~lastCheck.allowed
    /\ cfg.windowMs = WindowMsDefault
    /\ Len(admitted[lastCheck.key]) = cfg.maxRequests
    /\ now > 0
    /\ Cardinality(DOMAIN store) = 2

\* C26: a checkLimit or checkRateLimit call that returns allowed = false
\* leaves the whole store unchanged: no timestamp is recorded for the denied
\* request and no other key is touched, so that denied requests never postpone
\* the time at which the identity is admitted again.
C26_DeniedLeavesStoreUnchanged ==
    [][((CheckLimitCall \/ CheckRateLimitCall) /\ ~lastCheck'.allowed)
          => (store' = store /\ rateLimitStore' = rateLimitStore /\ admitted' = admitted)]_vars

\* a call for a key is denied 30 s after the one call its ceiling allows, and
\* the store holds that one call for the key
C26_Witness ==
    /\ lastCheck.op = "checkLimit"
    /\ ~lastCheck.allowed
    /\ now = 30000
    /\ cfg.maxRequests = 1
    /\ StoreGet(store, lastCheck.key) = <<0>>
    /\ lastCheck.resetTime = cfg.windowMs

\* a call of checkLimit for the key, made when the last call of the key was
\* denied with resetTime r, is allowed exactly if it is made at or after r
DenialHeldUntilReset(key) ==
    (CheckLimitCallRecorded /\ lastCheck'.key = key /\ Denied(key))
        => (lastCheck'.allowed <=> now >= denials[key].resetTime)

\* C27 as stated: if checkLimit denies a key at time t and reports resetTime r,
\* then with the same windowMs and maxRequests every call for that key made
\* before r is denied and the first call made at or after r is allowed, whatever
\* calls for other keys and whatever cleanup runs happen in between.
C27_DeniedUntilReset ==
    [][\A key \in AdmittedKeys : DenialHeldUntilReset(key)]_vars

\* C27, amended: the same for every windowMs of at most one hour, the horizon
\* of the sweep.
C27_DeniedUntilResetWithinHorizon ==
    [][cfg.windowMs <= OneHour => \A key \in AdmittedKeys : DenialHeldUntilReset(key)]_vars

\* a call of k1 was denied with resetTime 60 s, a call of k2 was made, the clock
\* stands at 60 s, and the call of k1 made now is the first allowed one since
C27_Witness ==
    /\ cfg.windowMs = WindowMsDefault
    /\ now = WindowMsDefault
    /\ denials[<<"k1", "">>] = [resetTime |-> WindowMsDefault, lifted |-> TRUE]
    /\ <<"k2", "">> \in DOMAIN store
    /\ lastCheck.key = <<"k1", "">>
    /\ lastCheck.allowed
    /\ StoreGet(store, <<"k1", "">>) = <<now>>

\* the result of a call on a store, as lastCheck records it
CheckLimitResult(st, key) ==
    LET c == CheckLimit(st, key, now, cfg.windowMs, cfg.maxRequests).result
    IN  [op |-> "checkLimit", key |-> key, allowed |-> c.allowed,
         remaining |-> c.remaining, resetTime |-> c.resetTime]

\* a call of checkLimit returns what the same call returns in the behaviour with
\* the same calls at the same times and no sweep
SweepTransparent ==
    CheckLimitCallRecorded => lastCheck' = CheckLimitResult(unswept, lastCheck'.key)

\* C28: for windowMs of at most one hour, running cleanup() at any points between
\* the calls of checkLimit never changes the allowed/denied result, the remaining
\* count or the resetTime of a later call, compared with the same sequence of
\* calls without sweeps.
C28_SweepTransparent ==
    [][cfg.windowMs <= OneHour => SweepTransparent]_vars

\* a sweep has evicted k2, which the sweep-free store still holds, and the call
\* of k1 made an hour or more into the behaviour was allowed with the same
\* remaining count as without the sweep
C28_Witness ==
    /\ cfg.windowMs = WindowMsDefault
    /\ cfg.maxRequests = 2
    /\ lastCheck.op = "checkLimit"
    /\ lastCheck.key = <<"k1", "">>
    /\ lastCheck.allowed
    /\ lastCheck.remaining = 1
    /\ now >= OneHour
    /\ Len(StoreGet(unswept, <<"k1", "">>)) = 1
    /\ <<"k2", "">> \in DOMAIN unswept
    /\ <<"k2", "">> \notin DOMAIN store

RequestSeen == httpRes.handled # "none"
RequestIsEmergency == LimiterIsEmergency(RequestMessage(httpRes.body))
StandardWindowExhausted == seen.conversationAdmitted >= ConversationMaxRequests

\* C7 as stated: a message with an emergency keyword is always admitted, also when
\* the standard window of its sender is exhausted.
C7_AlwaysAdmitted ==
    (RequestSeen /\ RequestIsEmergency /\ StandardWindowExhausted) => httpRes.next

\* C7, amended: a message with an emergency keyword is admitted whenever fewer than
\* 8 emergency messages of its sender were admitted in the last 60 s, whatever the
\* state of the standard window: standard requests never consume emergency quota.
C7_EmergencyPolicyOnly ==
    (RequestSeen /\ RequestIsEmergency)
        => (httpRes.next <=> seen.emergencyAdmitted < EmergencyMaxRequests)

\* an emergency message is admitted while the standard window is exhausted
C7_Witness ==
    /\ RequestSeen /\ RequestIsEmergency /\ StandardWindowExhausted
    /\ httpRes.next

\* C8: a non-emergency message denied because the standard window is full gets a
\* 429 response at once, with the slow-down message in the language of its text and
\* retryAfter the seconds until resetTime, and next() is not called.
C8_DenialIsLocalized429 ==
    (RequestSeen /\ ~RequestIsEmergency /\ ~lastCheck.allowed)
        => /\ httpRes.handled = "response"
           /\ httpRes.status = 429
           /\ httpRes.message = GetLocalizedRateLimitMessage(RequestMessage(httpRes.body))
           /\ httpRes.retryAfter = RoundSeconds(lastCheck.resetTime - seen.at)
           /\ ~httpRes.next

----------------------------------------------------------------------------
(* Properties of the provider fallback *)

\* processHealthQuery has built its answer
RunEnded == run.phase \in {"done", "returned"}

\* provider k has returned a message that is not empty
ReturnedMessage(k) == Truthy(run.results[Providers[k]].message)

\* every provider has been called and has thrown or returned no valid result
AllProvidersFailed ==
    \A p \in ProviderNames :
        run.results[p].kind \in {"throw", "return"} /\ ~IsValidResult(run.results[p])

\* C2: whatever the providers do, processHealthQuery returns the (possibly
\* translated) message of the first provider, in the order gemini, huggingface,
\* openai, that returns a non-empty message, tags the answer with the name of
\* that provider, and never invokes a provider that comes after it.
C2_FirstValidProviderAnswers ==
    /\ \A k \in 1..Len(Providers) :
          (ReturnedMessage(k) /\ \A j \in 1..(k - 1) : ~ReturnedMessage(j))
              => /\ \A j \in (k + 1)..Len(Providers) : run.invoked[Providers[j]] = 0
                 /\ RunEnded =>
                       /\ run.answer.provider = Providers[k]
                       /\ run.answer.message =
                              TranslateResponse(run.results[Providers[k]].message,
                                                run.language, run.translation)
                       /\ run.answer.message \in {run.results[Providers[k]].message, run.translation}
    /\ (RunEnded /\ run.answer.provider \in ProviderNames)
          => Truthy(run.results[run.answer.provider].message)

\* gemini and huggingface have failed, openai has answered and its message has
\* been translated to Hindi
C2_Witness ==
    /\ RunEnded
    /\ run.results["gemini"].kind = "throw"
    /\ run.results["huggingface"].kind = "throw"
    /\ run.answer.provider = "openai"
    /\ run.language = "hi"
    /\ run.answer.message = TranslatedText

\* C3: within one run of processHealthQuery each provider is invoked at most
\* once, a provider is invoked only after the call of every earlier provider has
\* ended with a throw or an invalid result, and no two provider calls are in
\* flight at the same time.
C3_StrictOrderedFallback ==
    /\ \A p \in ProviderNames : run.invoked[p] <= 1
    /\ Cardinality(run.inflight) <= 1
    /\ \A k \in 1..Len(Providers) :
          run.invoked[Providers[k]] > 0 =>
              \A j \in 1..(k - 1) :
                  /\ run.invoked[Providers[j]] = 1
                  /\ Providers[j] \notin run.inflight
                  /\ run.results[Providers[j]].kind \in {"throw", "return"}
                  /\ ~IsValidResult(run.results[Providers[j]])

\* the call of openai is in flight after gemini has returned an empty message
\* and both models of huggingface have failed
C3_Witness ==
    /\ run.phase = "provider"
    /\ run.inflight = {"openai"}
    /\ run.results["gemini"].kind = "return"
    /\ run.results["huggingface"].kind = "throw"
    /\ "huggingface" \in env.configured

\* the environment switches the knowledge base fallback off
FallbackSwitchedOff == env.DISABLE_KNOWLEDGE_BASE_FALLBACK = "true"

\* C4 as stated: when every provider throws, is unconfigured or returns an empty
\* message, processHealthQuery calls searchHealthInfo exactly once with the query,
\* and the answer is tagged provider 'knowledge_base' with confidence 0.5.
C4_AlwaysKnowledgeBase ==
    (RunEnded /\ AllProvidersFailed)
        => /\ run.searched = <<run.query>>
           /\ run.answer.provider = "knowledge_base"
           /\ run.answer.confidence = 5

\* C4, amended: the same unless DISABLE_KNOWLEDGE_BASE_FALLBACK is 'true'; then
\* searchHealthInfo is not called and the answer is the default apology.
C4_KnowledgeBaseUnlessDisabled ==
    (RunEnded /\ AllProvidersFailed)
        => IF FallbackSwitchedOff
           THEN /\ run.searched = <<>>
                /\ run.answer = GetDefaultErrorResponse(run.language)
           ELSE /\ run.searched = <<run.query>>
                /\ run.answer.provider = "knowledge_base"
                /\ run.answer.confidence = 5

\* all providers have failed for a query with history in front of it, and the
\* knowledge base has been searched with the query alone
C4_Witness ==
    /\ RunEnded
    /\ AllProvidersFailed
    /\ env.configured = ProviderNames
    /\ run.enhancedQuery # run.query
    /\ run.searched = <<run.query>>
    /\ run.answer.provider = "knowledge_base"

\* the five searches of searchHealthInfo find nothing for the query
NoKnowledgeMatch(kb, query, language) ==
    LET lowerQuery == ToLowerCase(query)
    IN  /\ ~Truthy(GetDirectSymptomResponse(lowerQuery, language))
        /\ ~Truthy(SearchDiseases(kb, lowerQuery, language))
        /\ ~Truthy(SearchBySymptoms(kb, lowerQuery, language))
        /\ ~Truthy(SearchGeneralHealth(lowerQuery, language))
        /\ ~Truthy(SearchEmergencyInfo(kb, lowerQuery, language))

\* C5: when no provider is configured and the query matches no direct symptom,
\* disease, symptom, general topic or emergency keyword of the knowledge engine,
\* processHealthQuery returns provider 'default', confidence 0.5 and the apology
\* text of the requested language.
C5_DefaultWhenNoMatch ==
    (RunEnded /\ env.configured = {} /\ NoKnowledgeMatch(knowledgeBase, run.query, run.language))
        => /\ run.answer.provider = "default"
           /\ run.answer.confidence = 5
           /\ run.answer.message = Localized(defaultResponses, run.language)

\* the canned text of the direct symptom the query names, or null
CannedText == GetDirectSymptomResponse(ToLowerCase(run.query), run.language)

\* C6 as stated: when all providers fail and the query contains fever, headache
\* or cough, processHealthQuery returns provider 'knowledge_base' with exactly the
\* canned text of the symptom in the requested language (en, hi or hinglish).
C6_ExactCannedText ==
    (RunEnded /\ AllProvidersFailed /\ run.language \in {"en", "hi", "hinglish"} /\ Truthy(CannedText))
        => /\ run.answer.provider = "knowledge_base"
           /\ run.answer.message = CannedText

\* C6, amended: when all providers fail, the fallback is not disabled and the
\* query names a direct symptom, the answer has provider 'knowledge_base'; in en
\* and hi its message is exactly the canned text; in hinglish, whose canned texts
\* are longer than 200 code units, it is a beginning of the canned text followed
\* by ' See doctor if symptoms persist.', at most 200 code units in all; it is
\* never the generic default text.
C6_CannedTextWithinLimit ==
    (RunEnded /\ AllProvidersFailed /\ ~FallbackSwitchedOff
        /\ run.language \in {"en", "hi", "hinglish"} /\ Truthy(CannedText))
        => /\ run.answer.provider = "knowledge_base"
           /\ run.answer.message # GetDefaultResponse(run.language)
           /\ run.language \in {"en", "hi"} => run.answer.message = CannedText
           /\ run.language = "hinglish" =>
                 LET kept == Len(run.answer.message) - Len(SeeDoctorTail)
                 IN  /\ Len(CannedText) > KnowledgeBaseMaxLength
                     /\ Len(run.answer.message) <= KnowledgeBaseMaxLength
                     /\ kept > 0
                     /\ run.answer.message = SubSeq(CannedText, 1, kept) \o SeeDoctorTail

\* all providers have failed for "2 din se bukhar hai", detected as hinglish, and
\* the knowledge base has answered
C6_Witness ==
    /\ RunEnded
    /\ AllProvidersFailed
    /\ run.query = TextDinSeBukhar
    /\ run.language = "hinglish"
    /\ run.answer.provider = "knowledge_base"

\* a message that is missing, empty or made of white space only
Blank(message) == message = Null \/ \A i \in 1..Len(message) : message[i] \in WhiteSpace

\* C21: a provider result whose message is missing, empty or whitespace-only is
\* treated like a thrown error: it is not returned, the next provider in the
\* order is called (after the last one the knowledge base fallback), and the
\* same provider is not called again.
C21_BlankResultIsFailure ==
    /\ \A message \in {Null, <<>>, <<32>>, <<32, 10, 9>>} : ~IsValidResult(Returned(message, 9))
    /\ \A k \in 1..Len(Providers) :
          LET p == Providers[k] IN
          (run.results[p].kind = "return" /\ Blank(run.results[p].message))
              => /\ run.invoked[p] = 1
                 /\ p \notin run.inflight
                 /\ run.answer.provider # p
                 /\ IF k < Len(Providers)
                    THEN run.invoked[Providers[k + 1]] = 1
                    ELSE run.phase \in {"useKnowledgeBaseFallback", "done", "returned"}

\* gemini has returned an empty message and the answer is that of huggingface
C21_Witness ==
    /\ RunEnded
    /\ run.results["gemini"] = Returned(<<>>, 9)
    /\ run.invoked["gemini"] = 1
    /\ run.answer.provider = "huggingface"

\* part_001:150-154 the disclaimers of MessageService.formatHealthResponse, which
\* nothing calls
MessageDisclaimers ==
    [en |-> <<10, 10, 9888, 65039, 32, 68, 73, 83, 67, 76, 65, 73, 77, 69, 82, 58, 32, 84, 104, 105, 115, 32, 105, 115,
             32, 65, 73, 45, 103, 101, 110, 101, 114, 97, 116, 101, 100, 32, 104, 101, 97, 108, 116, 104, 32, 105, 110, 102,
             111, 114, 109, 97, 116, 105, 111, 110, 32, 102, 111, 114, 32, 101, 100, 117, 99, 97, 116, 105, 111, 110, 97, 108,
             32, 112, 117, 114, 112, 111, 115, 101, 115, 32, 111, 110, 108, 121, 46, 32, 65, 108, 119, 97, 121, 115, 32, 99,
             111, 110, 115, 117, 108, 116, 32, 97, 32, 113, 117, 97, 108, 105, 102, 105, 101, 100, 32, 104, 101, 97, 108, 116,
             104, 99, 97, 114, 101, 32, 112, 114, 111, 102, 101, 115, 115, 105, 111, 110, 97, 108, 32, 102, 111, 114, 32, 109,
             101, 100, 105, 99, 97, 108, 32, 97, 100, 118, 105, 99, 101, 44, 32, 100, 105, 97, 103, 110, 111, 115, 105, 115,
             44, 32, 111, 114, 32, 116, 114, 101, 97, 116, 109, 101, 110, 116, 46>>,
     hi |-> <<10, 10, 9888, 65039, 32, 2330, 2375, 2340, 2366, 2357, 2344, 2368, 58, 32, 2351, 2361, 32, 65, 73, 32, 2342, 2381, 2357, 2366,
             2352, 2366, 32, 2340, 2376, 2351, 2366, 2352, 32, 2360, 2381, 2357, 2366, 2360, 2381, 2341, 2381, 2351, 32, 2332, 2366, 2344, 2325, 2366,
             2352, 2368, 32, 2325, 2375, 2357, 2354, 32, 2358, 2376, 2325, 2381, 2359, 2367, 2325, 32, 2313, 2342, 2381, 2342, 2375, 2358, 2381, 2351,
             2379, 2306, 32, 2325, 2375, 32, 2354, 2367, 2319, 32, 2361, 2376, 2404, 32, 2330, 2367, 2325, 2367, 2340, 2381, 2360, 2366, 32, 2360,
             2354, 2366, 2361, 44, 32, 2344, 2367, 2342, 2366, 2344, 32, 2351, 2366, 32, 2313, 2346, 2330, 2366, 2352, 32, 2325, 2375, 32, 2354,
             2367, 2319, 32, 2361, 2350, 2375, 2358, 2366, 32, 2351, 2379, 2327, 2381, 2351, 32, 2360, 2381, 2357, 2366, 2360, 2381, 2341, 2381, 2351,
             32, 2346, 2375, 2358, 2375, 2357, 2352, 32, 2360, 2375, 32, 2360, 2354, 2366, 2361, 32, 2354, 2375, 2306, 2404>>,
     hinglish |-> <<10, 10, 9888, 65039, 32, 68, 73, 83, 67, 76, 65, 73, 77, 69, 82, 58, 32, 89, 101, 32, 65, 73, 45, 103,
                   101, 110, 101, 114, 97, 116, 101, 100, 32, 104, 101, 97, 108, 116, 104, 32, 105, 110, 102, 111, 114, 109, 97, 116,
                   105, 111, 110, 32, 115, 105, 114, 102, 32, 101, 100, 117, 99, 97, 116, 105, 111, 110, 97, 108, 32, 112, 117, 114,
                   112, 111, 115, 101, 32, 107, 101, 32, 108, 105, 121, 101, 32, 104, 97, 105, 46, 32, 77, 101, 100, 105, 99, 97,
                   108, 32, 97, 100, 118, 105, 99, 101, 44, 32, 100, 105, 97, 103, 110, 111, 115, 105, 115, 32, 121, 97, 32, 116,
                   114, 101, 97, 116, 109, 101, 110, 116, 32, 107, 101, 32, 108, 105, 121, 101, 32, 104, 97, 109, 101, 115, 104, 97,
                   32, 113, 117, 97, 108, 105, 102, 105, 101, 100, 32, 100, 111, 99, 116, 111, 114, 32, 115, 101, 32, 99, 111, 110,
                   115, 117, 108, 116, 32, 107, 97, 114, 105, 121, 101, 46>>]

\* the disclaimers of a language: that of the knowledge engine, that of the
\* Hugging Face service and that of the message service
DisclaimersOf(language) ==
    {Localized(disclaimers, language), Localized(HuggingFaceDisclaimers, language),
     Localized(MessageDisclaimers, language)}

\* how many times the text d occurs in the text s
Occurrences(s, d) ==
    Cardinality({i \in 1..(Len(s) - Len(d) + 1) : SubSeq(s, i, i + Len(d) - 1) = d})

\* C22: translation is applied only to the answers of generation providers,
\* never to knowledge_base or default answers: for 'en' the text is returned
\* unchanged without a call of the translator, for 'hi' and 'hinglish' the
\* translator is called once, and when it fails or returns nothing the original
\* text is returned unchanged under the name of the provider.
C22_BestEffortTranslation ==
    /\ run.translateCalls <= 1
    /\ run.translateCalls = 1
          => /\ run.language \in {"hi", "hinglish"}
             /\ run.results[Providers[run.i]].kind = "return"
             /\ RunEnded => run.answer.provider = Providers[run.i]
    /\ (RunEnded /\ run.answer.provider \in {"knowledge_base", "default"})
          => run.translateCalls = 0 /\ run.translation = Null
    /\ (RunEnded /\ run.answer.provider \in ProviderNames)
          => LET original == run.results[run.answer.provider].message IN
             /\ run.language \notin {"hi", "hinglish"}
                   => run.translateCalls = 0 /\ run.answer.message = original
             /\ run.language \in {"hi", "hinglish"}
                   => /\ run.translateCalls = 1
                      /\ run.answer.message =
                            IF run.translation \in {Null, <<>>} THEN original ELSE run.translation

\* gemini has answered a query in Hindi, the translator has been called and
\* has given nothing, and the answer is the text of gemini
C22_Witness ==
    /\ RunEnded
    /\ run.language = "hi"
    /\ run.translateCalls = 1
    /\ run.translation = Null
    /\ run.answer.provider = "gemini"
    /\ run.answer.message = GeminiText

\* C23: every answer the pipeline delivers contains the localized medical
\* disclaimer exactly once, whichever source produced it (gemini, huggingface,
\* openai, knowledge_base or default) and whether or not the text was truncated.
C23_DisclaimerExactlyOnce ==
    (run.phase = "returned" /\ Truthy(pipeline.aiResponse.message))
        => \E d \in DisclaimersOf(pipeline.aiResponse.language) :
              /\ Occurrences(pipeline.aiResponse.message, d) = 1
              /\ \A other \in DisclaimersOf(pipeline.aiResponse.language) \ {d} :
                    Occurrences(pipeline.aiResponse.message, other) = 0

----------------------------------------------------------------------------
(* Properties of the webhook pipeline *)

\* C9: for every inbound webhook message the per-identity admission check runs
\* and is passed before language detection, history lookup or any provider call;
\* a message the admission controller denies never reaches processHealthQuery.
C9_AdmissionBeforeProcessing ==
    /\ (pipeline.entry = "webhook" /\ pipeline.status = 200) => pipeline.admission = "passed"
    /\ (pipeline.entry = "webhook" /\ pipeline.admission = "denied") => run.phase = "idle"

\* C10: a message for which isEmergencyQuery is true is answered with the text of
\* getEmergencyResponse for its language, and no provider is invoked for it.
C10_EmergencyShortCircuit ==
    (pipeline.entry \in {"webhook", "processMessage"} /\ pipeline.pc = "done"
        /\ pipeline.language # "" /\ IsEmergencyQuery(pipeline.userQuery))
        => /\ pipeline.outbox = GetEmergencyResponse(pipeline.language)
           /\ \A p \in ProviderNames : run.invoked[p] = 0

\* a webhook request that the limiter of the app lets through and whose From is
\* not empty
ValidWebhookEvent ==
    pipeline.entry = "webhook" /\ pipeline.from # "" /\ pipeline.status # 429

\* C11: handleIncomingMessage sends the 200 acknowledgement for a valid inbound
\* event in its own step, before any transcription, language detection, storage
\* or provider call of that event, and whether or not the pipeline of the event
\* has finished.
C11_AckBeforeProcessing ==
    /\ ValidWebhookEvent => pipeline.status = 200
    /\ (pipeline.entry = "webhook" /\ pipeline.calls # <<>>) => pipeline.status = 200
    /\ (pipeline.entry = "webhook" /\ run.phase # "idle") => pipeline.status = 200

\* a valid webhook event has been acknowledged and no call of its pipeline has
\* been made
C11_Witness ==
    /\ ValidWebhookEvent
    /\ pipeline.body = TextIHaveFever
    /\ pipeline.status = 200
    /\ pipeline.calls = <<>>
    /\ pipeline.sent = <<>>

\* C12: every inbound event acknowledged by handleIncomingMessage is answered by
\* exactly one outbound message to the sender: once the handling of the event
\* has come to its end, one message has been delivered, never none and never two.
C12_ExactlyOneReply ==
    (pipeline.entry = "webhook" /\ pipeline.status = 200 /\ pipeline.pc \in {"done", "failed"})
        => Len(pipeline.sent) = 1

\* processMessage has made the call
Called(call) == \E i \in 1..Len(pipeline.calls) : pipeline.calls[i] = call

\* C13: whether getUserContext, storeUserQuery and storeAiResponse succeed or
\* fail, processMessage invokes the orchestrator and hands its answer to the
\* message gateway for the sender; what the gateway delivers is that answer.
C13_StoreFailuresDoNotAbort ==
    (pipeline.entry = "processMessage" /\ pipeline.pc = "done" /\ Called("getUserContext"))
        => /\ Called("storeUserQuery")
           /\ Called("processHealthQuery")
           /\ run.phase = "returned"
           /\ pipeline.aiResponse = run.answer
           /\ Truthy(pipeline.aiResponse.message)
           /\ Called("storeAiResponse")
           /\ \/ Called("sendWhatsAppMessage") /\ pipeline.outbox = pipeline.aiResponse.message
              \/ Called("sendWhatsAppVoiceMessage") /\ pipeline.sent # <<>>
           /\ \A i \in 1..Len(pipeline.sent) :
                  pipeline.sent[i].message = pipeline.aiResponse.message

\* the history was not available and neither write reached the store, and the
\* answer of a provider has been delivered
C13_Witness ==
    /\ pipeline.entry = "processMessage"
    /\ pipeline.pc = "done"
    /\ pipeline.body = TextIHaveFever
    /\ pipeline.context = <<>>
    /\ pipeline.stored = {}
    /\ run.answer.provider = "gemini"
    /\ pipeline.sent = <<[kind |-> "text", message |-> run.answer.message]>>

\* C14: whatever the providers do, a call that does not complete is given up
\* after a bounded wait: no run of processHealthQuery is left awaiting a call
\* that never settles, and every call in flight is one that returns or throws.
C14_EveryRunReturns ==
    /\ run.phase # "pending"
    /\ run.inflight # {} => run.phase \in {"provider", "textGeneration"}

\* the text searchHealthInfo gave the knowledge base fallback of the run
RawKnowledgeResponse == SearchHealthInfo(knowledgeBase, run.query, run.language)

\* C15: for every response whose raw form is longer than the cap (200 on the
\* knowledge base fallback path), limitResponseLength returns a prefix that ends
\* in '.', '!' or '?' followed by ' See doctor if symptoms persist.', of at most
\* the cap plus the length of that tail.
C15_SentenceBoundaryAndTail ==
    (RunEnded /\ run.answer.provider = "knowledge_base"
        /\ Len(RawKnowledgeResponse) > KnowledgeBaseMaxLength)
        => LET message == run.answer.message
               kept == Len(message) - Len(SeeDoctorTail)
           IN  /\ kept > 0
               /\ SubSeq(message, kept + 1, Len(message)) = SeeDoctorTail
               /\ message[kept] \in {46, 33, 63}
               /\ Len(message) <= KnowledgeBaseMaxLength + Len(SeeDoctorTail)

\* the language the call of detectLanguage returned
DetectedLanguage == detection.language

\* the call of detectLanguage has returned
LanguageDetected == detection.pc = "returned"

\* C16: for every text containing at least one Devanagari code point
\* (U+0900..U+097F), detectLanguage returns 'hi', whatever Latin tokens, Hinglish
\* marker words, digits or punctuation occur with it and whatever the external
\* detection service would answer.
C16_DevanagariIsHindi ==
    (LanguageDetected /\ HasDevanagari(detection.text)) => DetectedLanguage = "hi"

\* C17: detectLanguage returns a value in {en, hi, hinglish} for every text and
\* every outcome of the external detection call; a failure of that call yields
\* 'en' and is never raised.
C17_LanguageInContract ==
    LanguageDetected => DetectedLanguage \in {"en", "hi", "hinglish"}

\* detectLanguage has returned for "mujhe (bukhar) hai 2 din se!", which holds
\* Devanagari letters, Latin words, Hinglish marker words, a digit and
\* punctuation
C16_Witness ==
    /\ LanguageDetected
    /\ detection.text = TextMixedBukhar
    /\ IsHinglish(detection.text)
    /\ detection.keys.bhashiniApiKey
    /\ DetectedLanguage = "hi"

\* C25: a query that is empty or made of white space only never reaches
\* aiService.processHealthQuery: on the webhook path and on the manual query
\* path it is answered with a greeting or rejected before any history lookup,
\* provider call or knowledge engine call.
C25_BlankQueryShortCircuited ==
    (pipeline.entry # "none" /\ Blank(pipeline.userQuery))
        => /\ run = NoRun
           /\ ~Called("getUserContext")
           /\ pipeline.context = <<>>

----------------------------------------------------------------------------
(* Properties of formatDiseaseInfo *)

SectionOf(diseaseInfo, field) ==
    IF field = "name" THEN <<SectionText.name \o diseaseInfo.name \o SectionText.bold \o <<10>> >>
    ELSE IF field = "definition" THEN <<diseaseInfo.definition \o <<10>> >>
    ELSE <<SectionText[field]>>
         \o [i \in 1..Len(diseaseInfo[field]) |->
                (IF field = "emergency_signs" THEN SectionText.warning ELSE SectionText.bullet)
                    \o diseaseInfo[field][i]]
         \o << <<>> >>

\* the sections of the fields an entry has, from the k-th field on, in the fixed
\* order
RECURSIVE SectionsFrom(_, _)
SectionsFrom(diseaseInfo, k) ==
    IF k > Len(DiseaseFields) THEN <<>>
    ELSE (IF DiseaseFields[k] \in DOMAIN diseaseInfo
          THEN SectionOf(diseaseInfo, DiseaseFields[k]) ELSE <<>>)
         \o SectionsFrom(diseaseInfo, k + 1)

\* C19: formatDiseaseInfo emits the sections in the order name, definition,
\* types, symptoms, causes, management, prevention, emergency signs, home
\* remedies, then the disclaimer of the request language; whatever fields the
\* entry lacks, exactly their sections are left out and all the others and the
\* disclaimer are emitted.
C19_SectionsInOrder ==
    formatting.last.diseaseInfo # NoDiseaseInfo
        => formatting.last.text =
              Join(SectionsFrom(formatting.last.diseaseInfo, 1)
                       \o <<GetDisclaimer(formatting.last.language)>>, <<10>>)

----------------------------------------------------------------------------
(* The triage verdict and the admission policy *)

\* C20: the verdict of isEmergencyQuery selects the admission policy: a message
\* for which it is true is checked against the emergency policy (8 per 60 s)
\* only, a message for which it is false against the standard policy (3 per
\* 60 s) only.
C20_VerdictSelectsPolicy ==
    RequestSeen
        => /\ lastCheck.op = "checkLimit"
           /\ IsEmergencyQuery(httpRes.body) <=> lastCheck.key = <<httpRes.user, ":emergency">>
           /\ ~IsEmergencyQuery(httpRes.body) <=> lastCheck.key = <<httpRes.user, ":conversation">>

----------------------------------------------------------------------------
(* Properties of searchHealthInfo *)

\* a call of searchHealthInfo has returned
Searched == search.text # Null

\* what the matchers of searchHealthInfo give for the query of the call, in the
\* order direct symptom, disease name, symptom, general topic, emergency contacts
MatcherResults ==
    LET lowerQuery == ToLowerCase(search.query) IN
    <<GetDirectSymptomResponse(lowerQuery, search.language),
      SearchDiseases(knowledgeBase, lowerQuery, search.language),
      SearchBySymptoms(knowledgeBase, lowerQuery, search.language),
      SearchGeneralHealth(lowerQuery, search.language),
      SearchEmergencyInfo(knowledgeBase, lowerQuery, search.language)>>

----------------------------------------------------------------------------
(* Properties of the conversation rows *)

AllRunsDone == \A r \in ConversationRuns : conversations.runs[r].pc = "done"

\* the two runs were for the same identity and the same query text, both stored
\* their query, and one started before the other had ended
SameQueryOverlapped ==
    /\ conversations.overlapped
    /\ conversations.runs[1].phoneNumber = conversations.runs[2].phoneNumber
    /\ conversations.runs[1].userQuery = conversations.runs[2].userQuery
    /\ \A r \in ConversationRuns : OwnRow(conversations.rows, r) # {}

\* C29: when two runs for the same identity with the same query text overlap,
\* every stored row ends up with the response generated by its own run:
\* storeAiResponse never attaches a response to the row another run created and
\* never leaves the row of an answered query without a response.
C29_RowKeepsOwnResponse ==
    (AllRunsDone /\ SameQueryOverlapped)
        => \A i \in 1..Len(conversations.rows) :
               LET row == conversations.rows[i] IN
               /\ row.answeredBy = row.createdBy
               /\ row.ai_response = conversations.runs[row.createdBy].message

----------------------------------------------------------------------------
(* Properties of the fallback to the knowledge engine *)

\* what processHealthQuery returns for the query, the language and a history
\* when every provider fails
AnswerWhenAllFail(query, language, context) ==
    UseKnowledgeBaseFallback(env, knowledgeBase,
                             FallbackQuery(StartRun(query, language, context)), language).answer

\* C30: when all providers fail, the answer of processHealthQuery depends only
\* on the query and the language: the run ends with the message, the provider
\* and the confidence that a run with the same query and language returns for
\* every other history, the knowledge engine is searched with the raw query,
\* and the history is left as it was passed in.
C30_FallbackIgnoresHistory ==
    (run.phase = "done" /\ AllProvidersFailed)
        => /\ \A context \in Contexts :
                LET other == AnswerWhenAllFail(run.query, run.language, context) IN
                /\ run.answer.message = other.message
                /\ run.answer.provider = other.provider
                /\ run.answer.confidence = other.confidence
           /\ \A i \in 1..Len(run.searched) : run.searched[i] = run.query
           /\ pipeline.entry = "processMessage"
                => run.enhancedQuery = BuildContextualQuery(run.query, pipeline.context)

\* a run with one turn of history, whose prompt differs from the query, has
\* ended on the answer of the knowledge engine after all three providers failed
C30_Witness ==
    /\ run.phase = "done"
    /\ AllProvidersFailed
    /\ pipeline.context # <<>>
    /\ run.query = TextWhatIsYourName
    /\ run.enhancedQuery # run.query
    /\ run.searched = <<TextWhatIsYourName>>
    /\ run.answer.provider = "knowledge_base"

====
